---- MODULE Spec2Model ----
(***************************************************************************)
(* A model of the utility core of hermes: the async token-bucket           *)
(* RateLimiter and get_limiter (hermes/infra/rate_limiter.py), the         *)
(* FileCache (hermes/infra/cache.py), the provider-aware retry helpers     *)
(* (hermes/infra/retry.py), the HTTP helpers and cached_request            *)
(* (hermes/tools/_base.py), Hermes.run and the agent registration of       *)
(* Hermes (hermes/core.py, hermes/registry.py) and the filing and          *)
(* transcript parsers (hermes/ingestion).                                  *)
(*                                                                         *)
(* Each subsystem has its own specifications (SpecLimiter,                 *)
(* SpecLimiterCancel, SpecLimiterLive, SpecLimiterOrder, SpecLimiterSolo,  *)
(* SpecRegistry, SpecCache, SpecCacheKeys, SpecCacheCorrupt, SpecRace,     *)
(* SpecRequest, SpecHelper, SpecHermes, SpecRun, SpecRetry, SpecDuration,  *)
(* SpecParse, SpecIdentify); the variables of the other subsystems stay    *)
(* at their idle values.                                                   *)
(***************************************************************************)
EXTENDS Integers, Sequences, FiniteSets, TLC

VARIABLES
    \* ---- RateLimiter ----
    now,          \* time.monotonic(), in ticks
    cfg,          \* <<rate2, per>>: rate = rate2/2 tokens per `per` ticks
    tokens,       \* self._tokens, in token units (one token = TokenUnit units)
    lastRefill,   \* self._last_refill
    pc,           \* position of each acquire() call
    wakeAt,       \* earliest tick at which a sleeping call's asyncio.sleep ends
    lockHolder,   \* self._lock: the call inside `async with self._lock`, or 0
    lockWaiters,  \* self._lock: FIFO of calls waiting for the lock
    firstIssue,   \* time of the first acquire() call issued, -1 before
    lastIssue,    \* time of the latest acquire() call issued, -1 before
    cancelledAt,  \* history: caller -> where its acquire() was cancelled, or ""
    \* ---- get_limiter ----
    limiters,     \* _limiters: name -> <<>> (absent) or <<the RateLimiter>>
    created,      \* the number of RateLimiter objects created
    firstGot,     \* history: name -> what the first get_limiter(name) returned
    lastGot,      \* history: <<name, instance>> of the latest get_limiter call
    \* ---- FileCache ----
    ctime,        \* time.time(), in ticks
    dataF,        \* the <sha256>.data files: entry -> <<>> (no file) or <<bytes>>
    metaF,        \* the <sha256>.meta files: entry -> <<>> (no file) or <<meta>>
    dirs,         \* the namespace directories that exist below the cache root
    lastPut,      \* history: per entry, the latest put not followed by a
                  \* delete of the entry or by any clear: <<>>, or
                  \* <<data, meta, whether it replaced an earlier entry>>
    lastDelete,   \* history: <<entry, value returned>> when the latest call
                  \* was a delete, else <<>>
    \* ---- FileCache, one writer and one reader ----
    wPc,          \* position of the writer's put: "idle", "open_data", ...
    wId,          \* the number of the writer's current (or latest) put
    wData,        \* the argument data of that put
    wTtl,         \* the argument ttl_seconds of that put
    wCreated,     \* the time.time() of that put's metadata
    wLost,        \* the file the writer has open was unlinked meanwhile
    dataBy,       \* history: the put that opened the .data file now on disk
    dataTorn,     \* history: that file is truncated, its bytes not yet written
    metaBy,       \* history: the put that opened the .meta file now on disk
    gPc,          \* position of the reader's get: "idle", "read_meta", "read_data"
    gMetaBy,      \* history: the put whose metadata the get has validated
    gRet,         \* <<>> during a get, else what the latest get returned
    \* ---- Hermes.run ----
    hInit,        \* Hermes._initialized
    maxRetries,   \* config.llm_max_retries
    runPc,        \* "idle", "called", "returned" or "raised"
    failFirst,    \* the workflow fails on its first failFirst attempts
    errKind,      \* the error those attempts raise: "429" or "other"
    attempts,     \* workflow.run() invocations made by the current run()
    sleeps,       \* asyncio.sleep() calls made by the current run()
    maxSlept,     \* the longest of those sleeps, in seconds
    runsDone,     \* run() calls finished
    \* ---- _parse_go_duration ----
    dComps,       \* the components the input string is written from
    dInput,       \* the argument s, a sequence of characters
    dResult,      \* <<>> before the call, <<value returned>> after it
    \* ---- extract_retry_after ----
    rProvider,    \* the argument provider
    rExc,         \* the argument exc: what its attributes hold
    rBackoff,     \* config.base_backoff
    rResult,      \* <<>> before the call, <<value returned>> after it
    \* ---- SecFilingParser / TranscriptParser ----
    pParser,      \* "sec" or "transcript": the parser called
    pInput,       \* the document: its text blocks, or its lines and paragraphs
    pSections,    \* what _split_into_sections / _split_by_speaker returned
    pNodes,       \* the nodes parse returned
    pDone,         \* whether parse has returned
    \* ---- SecFilingParser._identify_section ----
    iHeading,     \* the argument text: the start of a text block
    iResult,      \* <<"none">> before the call, <<"returned", value>> after it
    iDone,        \* whether _identify_section has returned
    \* ---- tools/_base.py cached_request ----
    crPc,         \* position of each caller: "idle" or "fetching" (awaiting fetch_fn)
    crArgs,       \* (namespace, key, ttl) of the caller's current or last call
    crValid,      \* history: the unexpired bytes of the latest put when the call began
    crFetched,    \* history: whether the call invoked fetch_fn
    crStored,     \* history: the (bytes, ttl) the call passed to cache.put
    crRet,         \* outcome of the call: returned bytes or the propagated error
    \* ---- tools/_base.py sec_get, sec_efts_get, fred_get ----
    hCfg,         \* the configuration: sec_user_agent and fred_api_key
    hPc,          \* position of the caller in the helper
    hHelper,      \* the helper called
    hCred,        \* the credential the call read from the configuration
    hTokens,      \* _tokens of the limiter registered under each name, NoLimiter if none
    hSnap,        \* history: hTokens when the call began
    hSent,         \* history: whether the call issued its HTTP request
    \* ---- core.py Hermes ----
    hmAgents,     \* Registry._agents: the class registered under each name, <<>> if none
    hmTools,      \* Registry._tools: the names of the registered tools
    hmInitialized, \* Hermes._initialized
    hmUser,       \* history: the class of the latest register_agent(override=True) of each name
    hmLast        \* the last call and its outcome

limVars == <<now, cfg, tokens, lastRefill, pc, wakeAt, lockHolder, lockWaiters,
             firstIssue, lastIssue>>

cacheVars == <<ctime, dataF, metaF, dirs, lastPut, lastDelete>>

runVars == <<hInit, maxRetries, runPc, failFirst, errKind, attempts, sleeps,
             maxSlept, runsDone>>

durVars == <<dComps, dInput, dResult>>

retryVars == <<rProvider, rExc, rBackoff, rResult>>

cancelVars == <<cancelledAt>>

regVars == <<limiters, created, firstGot, lastGot>>

raceVars == <<wPc, wId, wData, wTtl, wCreated, wLost, dataBy, dataTorn, metaBy,
              gPc, gMetaBy, gRet>>

parseVars == <<pParser, pInput, pSections, pNodes, pDone>>

identVars == <<iHeading, iResult, iDone>>

crVars == <<crPc, crArgs, crValid, crFetched, crStored, crRet>>

helperVars == <<hCfg, hPc, hHelper, hCred, hTokens, hSnap, hSent>>

hermesVars == <<hmAgents, hmTools, hmInitialized, hmUser, hmLast>>

vars == <<limVars, cacheVars, runVars, durVars, retryVars, parseVars, raceVars, regVars, cancelVars, identVars, crVars, helperVars, hermesVars>>

\* What each subsystem leaves alone.
nonLimVars == <<cacheVars, runVars, durVars, retryVars, parseVars, raceVars, regVars, cancelVars, identVars, crVars, helperVars, hermesVars>>
nonCacheVars == <<limVars, runVars, durVars, retryVars, parseVars, raceVars, regVars, cancelVars, identVars, crVars, helperVars, hermesVars>>
nonRunVars == <<limVars, cacheVars, durVars, retryVars, parseVars, raceVars, regVars, cancelVars, identVars, crVars, helperVars, hermesVars>>
nonDurVars == <<limVars, cacheVars, runVars, retryVars, parseVars, raceVars, regVars, cancelVars, identVars, crVars, helperVars, hermesVars>>
nonRetryVars == <<limVars, cacheVars, runVars, durVars, parseVars, raceVars, regVars, cancelVars, identVars, crVars, helperVars, hermesVars>>
nonParseVars == <<limVars, cacheVars, runVars, durVars, retryVars, raceVars, regVars, cancelVars, identVars, crVars, helperVars, hermesVars>>
\* The concurrent cache model works on the files of the cache.
nonRaceVars == <<limVars, runVars, durVars, retryVars, parseVars, regVars, cancelVars, identVars, crVars, helperVars, hermesVars>>
nonRegistryVars == <<limVars, cacheVars, runVars, durVars, retryVars, parseVars, raceVars, cancelVars, identVars, crVars, helperVars, hermesVars>>
\* A cancellation works on the limiter.
nonCancelVars == <<cacheVars, runVars, durVars, retryVars, parseVars, raceVars, regVars, identVars, crVars, helperVars, hermesVars>>
nonHermesVars ==
    <<limVars, cacheVars, runVars, durVars, retryVars,
      parseVars, raceVars, regVars, cancelVars, identVars, crVars, helperVars>>
nonHelperVars ==
    <<limVars, cacheVars, runVars, durVars, retryVars,
      parseVars, raceVars, regVars, cancelVars, identVars, crVars, hermesVars>>
\* cached_request works on the cache.
nonRequestVars ==
    <<limVars, runVars, durVars, retryVars,
      parseVars, raceVars, regVars, cancelVars, identVars, helperVars, hermesVars>>
nonIdentVars ==
    <<limVars, cacheVars, runVars, durVars, retryVars,
      parseVars, raceVars, regVars, cancelVars, crVars, helperVars, hermesVars>>

Min(a, b) == IF a <= b THEN a ELSE b

\* ceil(a / b) for a >= 0, b > 0
CeilDiv(a, b) == (a + b - 1) \div b

(***************************************************************************)
(*                              RateLimiter                                *)
(***************************************************************************)

\* Bounds of the limiter model.
NCallers == 3
MaxTime == 5

Callers == 1..NCallers

\* (rate2, per): rate = rate2/2 tokens per `per` ticks.  1 token per 2 ticks,
\* 2 tokens per 2 ticks, 1.5 tokens per 2 ticks, 1 token per tick.
Configs == {<<2, 2>>, <<4, 2>>, <<3, 2>>, <<2, 1>>}

Rate2 == cfg[1]
Per == cfg[2]

\* Tokens are kept in units of 1/(2*per) token, so that one tick of elapsed
\* time refills exactly rate2 units:  elapsed * (rate / per) tokens
\*   = elapsed * (rate2/2) / per * (2*per) units = elapsed * rate2 units.
TokenUnit == 2 * Per

\* self.rate, in token units: (rate2/2) * (2*per)
Capacity == Rate2 * Per

\* _refill: min(self.rate, self._tokens + elapsed * (self.rate / self.per))
\* (RefilledNoCap: a mutant without the cap)
RefilledNoCap(tok, last, t) == tok + (t - last) * Rate2
Refilled(tok, last, t) == Min(Capacity, tok + (t - last) * Rate2)

\* `if self._tokens >= 1.0` (CanGrantAny: a mutant that grants on any tokens)
CanGrantAny(tok) == tok > 0
CanGrant(tok) == tok >= TokenUnit

\* wait = deficit * (self.per / self.rate), deficit = 1.0 - self._tokens:
\* ((TokenUnit - tok) / TokenUnit) * per / (rate2/2) = (TokenUnit - tok) / rate2
\* ticks; asyncio.sleep(wait) ends at the first tick at or after it.
WaitTicks(tok) == CeilDiv(TokenUnit - tok, Rate2)

InitLimiter ==
    /\ now = 0
    /\ cfg \in Configs
    /\ tokens = Capacity
    /\ lastRefill = 0
    /\ pc = [i \in Callers |-> "idle"]
    /\ wakeAt = [i \in Callers |-> 0]
    /\ lockHolder = 0
    /\ lockWaiters = <<>>
    /\ firstIssue = -1
    /\ lastIssue = -1
    /\ cancelledAt = [i \in Callers |-> ""]

\* The limiter at rest, while another subsystem runs.
LimiterIdle == InitLimiter /\ cfg = <<2, 1>>

\* The clock advances.
Tick ==
    /\ now < MaxTime
    /\ now' = now + 1
    /\ UNCHANGED <<cfg, tokens, lastRefill, pc, wakeAt, lockHolder, lockWaiters,
                   firstIssue, lastIssue>>
    /\ UNCHANGED nonLimVars

\* A caller issues acquire().
Call(i) ==
    /\ pc[i] = "idle"
    /\ pc' = [pc EXCEPT ![i] = "enter"]
    /\ firstIssue' = IF firstIssue = -1 THEN now ELSE firstIssue
    /\ lastIssue' = now
    /\ UNCHANGED <<now, cfg, tokens, lastRefill, wakeAt, lockHolder, lockWaiters>>
    /\ UNCHANGED nonLimVars

\* `async with self._lock`: asyncio.Lock.acquire takes a free lock with no
\* waiters at once, and queues the caller otherwise.
LockAcquire(i) ==
    /\ pc[i] = "enter"
    /\ IF lockHolder = 0 /\ lockWaiters = <<>>
       THEN /\ lockHolder' = i
            /\ pc' = [pc EXCEPT ![i] = "cs"]
            /\ UNCHANGED lockWaiters
       ELSE /\ lockWaiters' = Append(lockWaiters, i)
            /\ pc' = [pc EXCEPT ![i] = "waitlock"]
            /\ UNCHANGED lockHolder
    /\ UNCHANGED <<now, cfg, tokens, lastRefill, wakeAt, firstIssue, lastIssue>>
    /\ UNCHANGED nonLimVars

\* Leaving `async with self._lock`: asyncio.Lock.release wakes the first
\* waiter, which then owns the lock.  pcNext is pc after the caller's own move.
ReleaseTo(pcNext) ==
    IF lockWaiters = <<>>
    THEN /\ lockHolder' = 0
         /\ lockWaiters' = lockWaiters
         /\ pc' = pcNext
    ELSE /\ lockHolder' = Head(lockWaiters)
         /\ lockWaiters' = Tail(lockWaiters)
         /\ pc' = [pcNext EXCEPT ![Head(lockWaiters)] = "cs"]

\* An acquire() whose asyncio.sleep is inside `async with self._lock`: the
\* call keeps the lock while it sleeps.
AttemptSleepingInLock(i) ==
    /\ pc[i] = "cs"
    /\ lockHolder = i
    /\ lastRefill' = now
    /\ LET t == Refilled(tokens, lastRefill, now) IN
       IF CanGrant(t)
       THEN /\ tokens' = t - TokenUnit
            /\ wakeAt' = wakeAt
            /\ ReleaseTo([pc EXCEPT ![i] = "done"])
       ELSE /\ tokens' = t
            /\ wakeAt' = [wakeAt EXCEPT ![i] = now + WaitTicks(t)]
            /\ pc' = [pc EXCEPT ![i] = "sleep"]
            /\ UNCHANGED <<lockHolder, lockWaiters>>
    /\ UNCHANGED <<now, cfg, firstIssue, lastIssue>>
    /\ UNCHANGED nonLimVars

\* The body of `async with self._lock` in acquire(): _refill(), then either
\* consume one token and return, or compute the wait and go to sleep outside
\* the lock.
Attempt(i) ==
    /\ pc[i] = "cs"
    /\ lockHolder = i
    /\ lastRefill' = now
    /\ LET t == Refilled(tokens, lastRefill, now) IN
       IF CanGrant(t)
       THEN /\ tokens' = t - TokenUnit
            /\ wakeAt' = wakeAt
            /\ ReleaseTo([pc EXCEPT ![i] = "done"])
       ELSE /\ tokens' = t
            /\ wakeAt' = [wakeAt EXCEPT ![i] = now + WaitTicks(t)]
            /\ ReleaseTo([pc EXCEPT ![i] = "sleep"])
    /\ UNCHANGED <<now, cfg, firstIssue, lastIssue>>
    /\ UNCHANGED nonLimVars

\* A mutant of Wake: the woken call takes its token without re-checking.
WakeAndConsume(i) ==
    /\ pc[i] = "sleep"
    /\ now >= wakeAt[i]
    /\ pc' = [pc EXCEPT ![i] = "done"]
    /\ tokens' = tokens - TokenUnit
    /\ wakeAt' = [wakeAt EXCEPT ![i] = 0]
    /\ UNCHANGED <<now, cfg, lastRefill, lockHolder, lockWaiters, firstIssue, lastIssue>>
    /\ UNCHANGED nonLimVars

\* `await asyncio.sleep(wait)` ends; the `while True` loop starts over.
Wake(i) ==
    /\ pc[i] = "sleep"
    /\ now >= wakeAt[i]
    /\ pc' = [pc EXCEPT ![i] = "enter"]
    /\ wakeAt' = [wakeAt EXCEPT ![i] = 0]
    /\ UNCHANGED <<now, cfg, tokens, lastRefill, lockHolder, lockWaiters,
                   firstIssue, lastIssue>>
    /\ UNCHANGED nonLimVars

NextLimiter ==
    \/ Tick
    \/ \E i \in Callers : Call(i)
    \/ \E i \in Callers : LockAcquire(i)
    \/ \E i \in Callers : Attempt(i)
    \/ \E i \in Callers : Wake(i)

(***************************************************************************)
(*                      RateLimiter: checked properties                    *)
(***************************************************************************)

Issued == {i \in Callers : pc[i] # "idle"}
AllIssuedDone == Issued # {} /\ \A i \in Issued : pc[i] = "done"

\* C1: in every reachable state 0 <= tokens <= capacity (capacity = rate),
\* the lazy refill never yields more than capacity, and a refill after an
\* idle period of at least one full window yields exactly capacity.
C1_TokensWithinCapacity ==
    /\ 0 <= tokens /\ tokens <= Capacity
    /\ Refilled(tokens, lastRefill, now) <= Capacity
    /\ (now - lastRefill >= Per => Refilled(tokens, lastRefill, now) = Capacity)

\* C1 witness: the first acquire() came after the limiter sat idle for two
\* full windows; its refill left exactly capacity, of which it took one token.
C1_Witness ==
    /\ Cardinality(Issued) = 1
    /\ AllIssuedDone
    /\ lastRefill = now
    /\ lastRefill >= 2 * Per
    /\ tokens = Capacity - TokenUnit

\* C2: a call returns only in a step of the locked body in which the refilled
\* token count is at least one token, and that step takes exactly one token;
\* no other step lowers the token count; a call that wakes from its sleep goes
\* back to the top of the loop and leaves the token count alone.
C2_ConsumeOnlyOnGrant ==
    [][LET r == Refilled(tokens, lastRefill, now) IN
       /\ \A i \in Callers :
            (pc[i] # "done" /\ pc'[i] = "done") =>
                /\ pc[i] = "cs"
                /\ lockHolder = i
                /\ r >= TokenUnit
                /\ tokens' = r - TokenUnit
       /\ (tokens' < tokens) =>
            \E i \in Callers : pc[i] = "cs" /\ pc'[i] = "done"
       /\ (\A i \in Callers : pc'[i] = "done" => pc[i] = "done") =>
            tokens' \in {tokens, r}
       /\ \A i \in Callers :
            pc[i] = "sleep" =>
                /\ pc'[i] \in {"sleep", "enter"}
                /\ (pc'[i] = "enter" => tokens' = tokens)
      ]_vars

\* C2 witness: with one token per window every caller has returned, so all but
\* the first slept for their deficit, woke, re-ran the check and only then
\* took a token.
C2_Witness ==
    /\ Rate2 = 2
    /\ \A i \in Callers : pc[i] = "done"
    /\ tokens < TokenUnit

\* C3: when N > rate calls were issued at the same time on a limiter created
\* full, the last of them returns no earlier than (N - rate) * per / rate
\* after they were issued: elapsed * rate2 >= (2N - rate2) * per.
C3_MinElapsed ==
    LET N == Cardinality(Issued) IN
    (AllIssuedDone /\ firstIssue = lastIssue /\ 2 * N > Rate2) =>
        (now - firstIssue) * Rate2 >= (2 * N - Rate2) * Per

\* C3 witness: all callers were issued together, more of them than the rate,
\* all have returned, and the elapsed time meets the bound exactly.
C3_Witness ==
    /\ Issued = Callers
    /\ AllIssuedDone
    /\ firstIssue = lastIssue
    /\ 2 * NCallers > Rate2
    /\ (now - firstIssue) * Rate2 = (2 * NCallers - Rate2) * Per

\* C25: a call that sleeps for its deficit holds no lock and waits for none;
\* the lock is held only by a call that is about to run the refill / check /
\* consume step, so that step stays open to the other callers.
C25_SleepsOutsideLock ==
    /\ \A i \in Callers :
          pc[i] = "sleep" =>
              /\ lockHolder # i
              /\ \A k \in 1..Len(lockWaiters) : lockWaiters[k] # i
    /\ lockHolder # 0 => pc[lockHolder] = "cs"

\* C25 witness: on a limiter of one token, a call is still in its sleep while
\* a second token has been granted to another call, whose locked step ran at
\* the present time.
C25_Witness ==
    /\ Capacity = TokenUnit
    /\ \E i \in Callers : pc[i] = "sleep" /\ wakeAt[i] > 0 /\ now >= wakeAt[i]
    /\ Cardinality({j \in Callers : pc[j] = "done"}) = 2
    /\ lastRefill = now
    /\ tokens = 0
    /\ lockHolder = 0

(***************************************************************************)
(*                 RateLimiter: acquire() calls that are cancelled         *)
(***************************************************************************)

\* Where acquire() waits and a cancellation can reach it: in the queue of the
\* lock ("waitlock") and in asyncio.sleep ("sleep").
Suspended == {"waitlock", "sleep"}

\* A cancellation that takes a token with it (a limiter that would reserve
\* the token before waiting).
CancelTakingToken(i) ==
    /\ pc[i] \in Suspended
    /\ cancelledAt' = [cancelledAt EXCEPT ![i] = pc[i]]
    /\ wakeAt' = [wakeAt EXCEPT ![i] = 0]
    /\ tokens' = IF tokens >= TokenUnit THEN tokens - TokenUnit ELSE 0
    /\ lockWaiters' = SelectSeq(lockWaiters, LAMBDA w : w # i)
    /\ pc' = [pc EXCEPT ![i] = "cancelled"]
    /\ UNCHANGED <<now, cfg, lastRefill, lockHolder, firstIssue, lastIssue>>
    /\ UNCHANGED nonCancelVars

\* The task running acquire() is cancelled: CancelledError is raised at the
\* await where the call is suspended.  asyncio.Lock.acquire removes the
\* caller's future from the waiters; asyncio.sleep cancels its timer.  No
\* statement of the locked body runs.
Cancel(i) ==
    /\ pc[i] \in Suspended
    /\ cancelledAt' = [cancelledAt EXCEPT ![i] = pc[i]]
    /\ wakeAt' = [wakeAt EXCEPT ![i] = 0]
    /\ lockWaiters' = SelectSeq(lockWaiters, LAMBDA w : w # i)
    /\ pc' = [pc EXCEPT ![i] = "cancelled"]
    /\ UNCHANGED <<now, cfg, tokens, lastRefill, lockHolder, firstIssue, lastIssue>>
    /\ UNCHANGED nonCancelVars

NextLimiterCancel ==
    \/ NextLimiter
    \/ \E i \in Callers : Cancel(i)

\* C17: a step that cancels a call waiting inside acquire(), for the lock or
\* in its sleep, leaves the token count and the refill time as they were, so
\* the tokens the next caller finds are the same; the token count goes down
\* only in the step in which some call returns; a cancelled call never
\* returns.
C17_CancelConsumesNoToken ==
    [][/\ \A i \in Callers :
            (pc[i] # "cancelled" /\ pc'[i] = "cancelled") =>
                /\ pc[i] \in Suspended
                /\ tokens' = tokens
                /\ lastRefill' = lastRefill
                /\ Refilled(tokens', lastRefill', now')
                      = Refilled(tokens, lastRefill, now)
       /\ (tokens' < tokens) =>
            \E i \in Callers : pc[i] = "cs" /\ pc'[i] = "done"
       /\ \A i \in Callers : pc[i] = "cancelled" => pc'[i] = "cancelled"
      ]_vars

\* C17 witness: on a limiter of one token, one call returned with the token,
\* one call was cancelled in the lock's queue and one in its sleep for the
\* next token; nothing was taken since, and a window later the token the
\* sleeper was waiting for is there for the next caller.
C17_Witness ==
    /\ \E i, j, k \in Callers :
          /\ cancelledAt[i] = "waitlock"
          /\ cancelledAt[j] = "sleep"
          /\ pc[k] = "done"
    /\ Capacity = TokenUnit
    /\ tokens = 0
    /\ Refilled(tokens, lastRefill, now) = TokenUnit

(***************************************************************************)
(*          RateLimiter: callers that keep calling, a clock that runs on   *)
(***************************************************************************)

Max(a, b) == IF a >= b THEN a ELSE b

\* The clock advances by one tick.  So that it can run forever, the times are
\* kept relative to the clock: `now` stays and the refill time and the wake-up
\* times move one tick into the past.  A wake-up time in the past is due, as
\* one at `now` is; _refill caps at self.rate, so an idle time of more than
\* `per` refills what `per` does.  A coroutine that is ready to run does not
\* wait a tick for its turn: the event loop runs it first.
TickLive ==
    /\ \A i \in Callers : pc[i] # "enter"
    /\ lastRefill' = Max(lastRefill - 1, now - Per)
    /\ wakeAt' = [i \in Callers |->
                    IF pc[i] = "sleep" THEN Max(wakeAt[i] - 1, now) ELSE wakeAt[i]]
    /\ UNCHANGED <<now, cfg, tokens, pc, lockHolder, lockWaiters,
                   firstIssue, lastIssue>>
    /\ UNCHANGED nonLimVars

\* A caller whose acquire() has returned calls acquire() again.
Reissue(i) ==
    /\ pc[i] = "done"
    /\ pc' = [pc EXCEPT ![i] = "enter"]
    /\ lastIssue' = now
    /\ UNCHANGED <<now, cfg, tokens, lastRefill, wakeAt, lockHolder, lockWaiters,
                   firstIssue>>
    /\ UNCHANGED nonLimVars

\* One run of the loop body of acquire() on one event loop.  There is no await
\* between `async with self._lock` taking the lock and the end of the locked
\* body, so no other coroutine runs in between: the lock is free whenever a
\* coroutine reaches it, and taking it, _refill(), the test and the release
\* are one step.
AcquireStep(i) ==
    /\ pc[i] = "enter"
    /\ lockHolder = 0
    /\ lockWaiters = <<>>
    /\ lastRefill' = now
    /\ LET t == Refilled(tokens, lastRefill, now) IN
       IF CanGrant(t)
       THEN /\ tokens' = t - TokenUnit
            /\ wakeAt' = wakeAt
            /\ pc' = [pc EXCEPT ![i] = "done"]
       ELSE /\ tokens' = t
            /\ wakeAt' = [wakeAt EXCEPT ![i] = now + WaitTicks(t)]
            /\ pc' = [pc EXCEPT ![i] = "sleep"]
    /\ UNCHANGED <<now, cfg, lockHolder, lockWaiters, firstIssue, lastIssue>>
    /\ UNCHANGED nonLimVars

NextLimiterLive ==
    \/ TickLive
    \/ \E i \in Callers : Call(i)
    \/ \E i \in Callers : Reissue(i)
    \/ \E i \in Callers : AcquireStep(i)
    \/ \E i \in Callers : Wake(i)

\* The event loop is fair: time passes, and a coroutine that is ready to run
\* (called, or resumed after its sleep) runs.  Nothing obliges a client to
\* call acquire().
FairLimiter ==
    /\ WF_vars(TickLive)
    /\ \A i \in Callers :
          /\ WF_vars(AcquireStep(i))
          /\ WF_vars(Wake(i))

Pending(i) == pc[i] \in {"enter", "sleep"}

\* C16: on a limiter with rate >= 1, under a fair scheduler, every acquire()
\* call that has been issued eventually returns, also while other callers
\* keep issuing acquire() calls.
C16_NoStarvation ==
    \A i \in Callers : Pending(i) ~> (pc[i] = "done")

(***************************************************************************)
(*           RateLimiter: the order in which callers are granted           *)
(***************************************************************************)

\* The callers issue acquire() in the order of their numbers: caller i + 1
\* calls after caller i has called.
CallInTurn(i) ==
    /\ \A k \in Callers : k < i => pc[k] # "idle"
    /\ Call(i)

\* The event loop runs ready coroutines in the order in which they became
\* ready.  Here the earliest caller among the ready ones runs first, which
\* never lets a later caller pass an earlier one that is ready.
AcquireInTurn(i) ==
    /\ \A k \in Callers : k < i => pc[k] # "enter"
    /\ AcquireStep(i)

NextLimiterOrder ==
    \/ TickLive
    \/ \E i \in Callers : CallInTurn(i)
    \/ \E i \in Callers : AcquireInTurn(i)
    \/ \E i \in Callers : Wake(i)

\* C26: if call A is issued before call B, A is granted its token no later
\* than B: whenever a call has returned, every call issued before it has
\* returned.
C26_ServedInOrder ==
    \A i, j \in Callers : (i < j /\ pc[j] = "done") => pc[i] = "done"

(***************************************************************************)
(*        RateLimiter: one caller, rates below one request per period      *)
(***************************************************************************)

\* The rates of Configs and rates below one token per period: half a token
\* per 1, 2, 3 and 4 ticks (RateLimiter(rate=0.5, per=...)).
FractionalConfigs == {<<1, 1>>, <<1, 2>>, <<1, 3>>, <<1, 4>>}

\* RateLimiter(rate, per), rate > 0 and per > 0: __init__ as in InitLimiter.
InitLimiterSolo ==
    /\ now = 0
    /\ cfg \in Configs \cup FractionalConfigs
    /\ tokens = Capacity
    /\ lastRefill = 0
    /\ pc = [i \in Callers |-> "idle"]
    /\ wakeAt = [i \in Callers |-> 0]
    /\ lockHolder = 0
    /\ lockWaiters = <<>>
    /\ firstIssue = -1
    /\ lastIssue = -1
    /\ cancelledAt = [i \in Callers |-> ""]

\* Caller 1 is the only one to call acquire(), one call after the other.
NextLimiterSolo ==
    \/ TickLive
    \/ Call(1)
    \/ Reissue(1)
    \/ AcquireStep(1)
    \/ Wake(1)

FairSolo ==
    /\ WF_vars(TickLive)
    /\ WF_vars(AcquireStep(1))
    /\ WF_vars(Wake(1))

\* C28: for every rate > 0 and per > 0, also a rate below one request per
\* period, an acquire() call with no competing caller eventually returns.
C28_SoloAcquireReturns == Pending(1) ~> (pc[1] = "done")

(***************************************************************************)
(*                               get_limiter                               *)
(***************************************************************************)

\* The names asked for: the keys of DEFAULT_LIMITS and two other names.
LimiterNames == {"sec_edgar", "fred", "yahoo_finance", "polygon", ""}

KnownNames == {"sec_edgar", "fred", "yahoo_finance"}

\* DEFAULT_LIMITS: name -> <<rate, per>>, per in tenths of a second.
DefaultLimits ==
    [name \in KnownNames |->
        CASE name = "sec_edgar" -> <<10, 10>>
          [] name = "fred" -> <<2, 10>>
          [] name = "yahoo_finance" -> <<1, 10>>]

\* DEFAULT_LIMITS.get(name, (1, 1.0))
LimitsFor(name) == IF name \in KnownNames THEN DefaultLimits[name] ELSE <<1, 10>>

\* No RateLimiter: the name is not in _limiters.
NoLimiter == <<>>

InitRegistry ==
    /\ limiters = [name \in LimiterNames |-> NoLimiter]
    /\ created = 0
    /\ firstGot = [name \in LimiterNames |-> NoLimiter]
    /\ lastGot = <<>>

RegistryIdle == InitRegistry

\* RateLimiter(rate=rate, per=per): a new object, which the number of objects
\* created so far tells from every other.
NewLimiter(id, limits) == [id |-> id, rate |-> limits[1], per |-> limits[2]]

\* A get_limiter(name) without the registry lookup: a new limiter at every call.
GetLimiterAnew(name) ==
    /\ limiters' = [limiters EXCEPT
                       ![name] = <<NewLimiter(created + 1, LimitsFor(name))>>]
    /\ created' = created + 1
    /\ lastGot' = <<name, limiters'[name][1]>>
    /\ firstGot' = IF firstGot[name] = NoLimiter
                   THEN [firstGot EXCEPT ![name] = limiters'[name]]
                   ELSE firstGot
    /\ UNCHANGED nonRegistryVars

\* get_limiter(name): creates and registers the limiter of a name that is not
\* in _limiters, and returns _limiters[name].
GetLimiter(name) ==
    LET fresh == limiters[name] = NoLimiter
        registry == IF fresh
                    THEN [limiters EXCEPT
                             ![name] = <<NewLimiter(created + 1, LimitsFor(name))>>]
                    ELSE limiters
    IN /\ limiters' = registry
       /\ created' = IF fresh THEN created + 1 ELSE created
       /\ lastGot' = <<name, registry[name][1]>>
       /\ firstGot' = IF firstGot[name] = NoLimiter
                      THEN [firstGot EXCEPT ![name] = registry[name]]
                      ELSE firstGot
       /\ UNCHANGED nonRegistryVars

NextRegistry == \E name \in LimiterNames : GetLimiter(name)

\* C18: every get_limiter(name) call returns the instance the first call with
\* that name returned; an entry of the registry, once made, is never replaced
\* or removed; the instance has the (rate, per) of DEFAULT_LIMITS for a known
\* name and (1, 1.0 s) for any other.
C18_OneLimiterPerName ==
    [][/\ lastGot' # <<>>
       /\ firstGot'[lastGot'[1]] = <<lastGot'[2]>>
       /\ limiters'[lastGot'[1]] = <<lastGot'[2]>>
       /\ \A name \in LimiterNames :
            /\ limiters[name] # NoLimiter => limiters'[name] = limiters[name]
            /\ firstGot[name] # NoLimiter => firstGot'[name] = firstGot[name]
            /\ limiters'[name] # NoLimiter =>
                  /\ <<limiters'[name][1].rate, limiters'[name][1].per>>
                        = (IF name = "sec_edgar" THEN <<10, 10>>
                           ELSE IF name = "fred" THEN <<2, 10>>
                           ELSE <<1, 10>>)
                  /\ \A other \in LimiterNames \ {name} :
                        limiters'[other] # NoLimiter =>
                            limiters'[other][1].id # limiters'[name][1].id
      ]_vars

\* C18 witness: every name has its limiter, and the latest call, for an
\* unknown name whose limiter was not the last one made, returned the
\* instance made at the first call for that name.
C18_Witness ==
    /\ \A name \in LimiterNames : limiters[name] # NoLimiter
    /\ lastGot # <<>>
    /\ lastGot[1] = "polygon"
    /\ lastGot[2].id < created
    /\ firstGot["polygon"] = <<lastGot[2]>>
    /\ lastGot[2].rate = 1


(***************************************************************************)
(*                               FileCache                                 *)
(***************************************************************************)

\* Bound of the cache model: the clock runs from 0 to MaxCTime.
MaxCTime == 2

\* Namespace strings, as character sequences: "a", "b" and "a/b".
Namespaces == {<<"a">>, <<"b">>, <<"a", "/", "b">>}
Keys == {"k"}

\* The keys of the one-namespace specification below.
AllKeys == {"k", "j"}

\* The byte strings put into the cache: b"" and one non-empty string.
Bytes == {<<>>, <<1>>}

\* ttl_seconds: <<>> is None (TTL_PERMANENT), <<t>> is t seconds.
TTLs == {<<>>, <<1>>}

\* `self._base / namespace`: pathlib splits the namespace at "/" into the
\* components of the directory below the cache root.
RECURSIVE PathParts(_, _, _)
PathParts(s, i, cur) ==
    LET flush == IF cur = <<>> THEN <<>> ELSE <<cur>> IN
    IF i > Len(s) THEN flush
    ELSE IF s[i] = "/" THEN flush \o PathParts(s, i + 1, <<>>)
    ELSE PathParts(s, i + 1, Append(cur, s[i]))

NsDirOf == [ns \in Namespaces |-> PathParts(ns, 1, <<>>)]
NsDir(ns) == NsDirOf[ns]

\* _hash_key: the SHA-256 digest of the key names the entry's files.
HashKey(key) == <<"sha256", key>>

\* _entry_path / _meta_path: the directory and the digest locate the pair.
EntryPath(ns, key) == <<NsDir(ns), HashKey(key)>>

Entries == {EntryPath(ns, key) : ns \in Namespaces, key \in AllKeys}

IsPrefix(p, q) == Len(p) <= Len(q) /\ SubSeq(q, 1, Len(p)) = p

NoFile == <<>>
None == <<>>

\* What a .meta file can hold other than the JSON object put wrote: text that
\* is no JSON (or the JSON null), bytes that are no UTF-8, JSON that is no
\* object, and objects without created_at, with a ttl and without ("{}").
CorruptMetas ==
    {[corrupt |-> "malformed"], [corrupt |-> "undecodable"],
     [corrupt |-> "not_object"], [ttl_seconds |-> <<1>>], [ttl_seconds |-> <<>>]}

\* _read_meta: the parsed JSON value of an existing .meta file.
ReadMeta(m) == m[1]

\* _read_meta returns None: json.JSONDecodeError is caught (and null parses
\* to None).
ReadMetaFails(m) == "corrupt" \in DOMAIN m[1] /\ m[1].corrupt = "malformed"

\* _read_meta raises: the UnicodeDecodeError of read_text is neither a
\* json.JSONDecodeError nor an OSError.
ReadMetaRaises(m) == "corrupt" \in DOMAIN m[1] /\ m[1].corrupt = "undecodable"

\* _is_expired raises: meta.get on a value that is no dict (AttributeError),
\* meta["created_at"] on a dict without it (KeyError).
ExpiryRaises(meta) ==
    \/ "corrupt" \in DOMAIN meta
    \/ meta.ttl_seconds # <<>> /\ "created_at" \notin DOMAIN meta

\* get / has: whether the call raises instead of returning.
CallRaises(d, m) ==
    /\ d # NoFile
    /\ m # NoFile
    /\ \/ ReadMetaRaises(m)
       \/ ~ReadMetaFails(m) /\ ExpiryRaises(ReadMeta(m))

\* _is_expired (IsExpiredAtTTL: a mutant that expires an entry at age = ttl)
IsExpiredAtTTL(meta, t) ==
    IF meta.ttl_seconds = <<>> THEN FALSE
    ELSE t - meta.created_at >= meta.ttl_seconds[1]
IsExpired(meta, t) ==
    IF meta.ttl_seconds = <<>> THEN FALSE
    ELSE t - meta.created_at > meta.ttl_seconds[1]

\* get: the value returned (None also stands for no value, when it raises).
GetRet(d, m, t) ==
    IF d = NoFile \/ m = NoFile THEN None
    ELSE IF CallRaises(d, m) THEN None
    ELSE IF ReadMetaFails(m) THEN None
    ELSE IF IsExpired(ReadMeta(m), t) THEN None
    ELSE <<d[1]>>

\* RemovesPair without the removal: an expired entry stays on disk.
RemovesPairNever(d, m, t) == FALSE

\* get / has: whether the call removes the pair (_remove_pair on expiry).
RemovesPair(d, m, t) ==
    /\ d # NoFile
    /\ m # NoFile
    /\ ~CallRaises(d, m)
    /\ ~ReadMetaFails(m)
    /\ IsExpired(ReadMeta(m), t)

\* get: whether the call removes the pair, on expiry or when _read_meta
\* returned None.
GetRemovesPair(d, m, t) ==
    \/ RemovesPair(d, m, t)
    \/ d # NoFile /\ m # NoFile /\ ~CallRaises(d, m) /\ ReadMetaFails(m)

\* delete: the value returned (`existed`).
DeleteRet(d, m) == d # NoFile \/ m # NoFile

\* has: the value returned.
HasRet(d, m, t) ==
    IF d = NoFile \/ m = NoFile THEN FALSE
    ELSE IF CallRaises(d, m) THEN FALSE
    ELSE IF ReadMetaFails(m) THEN FALSE
    ELSE ~IsExpired(ReadMeta(m), t)

\* put: the metadata written (PutMetaKeepCreated: a mutant that keeps the
\* created_at of the entry it overwrites).
PutMetaKeepCreated(old, t, ttl) ==
    IF old = NoFile THEN [created_at |-> t, ttl_seconds |-> ttl]
    ELSE [created_at |-> old[1].created_at, ttl_seconds |-> ttl]
PutMeta(old, t, ttl) == [created_at |-> t, ttl_seconds |-> ttl]

\* shutil.rmtree(self._base / namespace): the entries it removes.
RmtreeOf == [ns \in Namespaces |-> {e \in Entries : IsPrefix(NsDir(ns), e[1])}]
Rmtree(ns) == RmtreeOf[ns]

\* The directories of the namespaces.
Dirs == {NsDir(ns) : ns \in Namespaces}

\* data_path.parent.mkdir(parents=True, exist_ok=True): the directories made.
MkdirOf == [ns \in Namespaces |-> {d \in Dirs : IsPrefix(d, NsDir(ns))}]
Mkdir(ns) == MkdirOf[ns]

\* shutil.rmtree(self._base / namespace): the directories it removes.
RmtreeDirsOf == [ns \in Namespaces |-> {d \in Dirs : IsPrefix(NsDir(ns), d)}]
RmtreeDirs(ns) == RmtreeDirsOf[ns]

InitCache ==
    /\ ctime = 0
    /\ dataF = [e \in Entries |-> NoFile]
    /\ metaF = [e \in Entries |-> NoFile]
    /\ dirs = {}
    /\ lastPut = [e \in Entries |-> <<>>]
    /\ lastDelete = <<>>

CacheIdle == InitCache

\* time.time() advances.
CTick ==
    /\ ctime < MaxCTime
    /\ ctime' = ctime + 1
    /\ UNCHANGED <<dataF, metaF, dirs, lastPut, lastDelete>>
    /\ UNCHANGED nonCacheVars

Get(ns, key) ==
    LET e == EntryPath(ns, key) IN
    /\ IF GetRemovesPair(dataF[e], metaF[e], ctime)
       THEN /\ dataF' = [dataF EXCEPT ![e] = NoFile]
            /\ metaF' = [metaF EXCEPT ![e] = NoFile]
       ELSE UNCHANGED <<dataF, metaF>>
    /\ lastDelete' = <<>>
    /\ UNCHANGED <<ctime, dirs, lastPut>>
    /\ UNCHANGED nonCacheVars

Has(ns, key) ==
    LET e == EntryPath(ns, key) IN
    /\ IF RemovesPair(dataF[e], metaF[e], ctime)
       THEN /\ dataF' = [dataF EXCEPT ![e] = NoFile]
            /\ metaF' = [metaF EXCEPT ![e] = NoFile]
       ELSE UNCHANGED <<dataF, metaF>>
    /\ lastDelete' = <<>>
    /\ UNCHANGED <<ctime, dirs, lastPut>>
    /\ UNCHANGED nonCacheVars

Put(ns, key, data, ttl) ==
    LET e == EntryPath(ns, key)
        meta == PutMeta(metaF[e], ctime, ttl) IN
    /\ dirs' = dirs \cup Mkdir(ns)
    /\ dataF' = [dataF EXCEPT ![e] = <<data>>]
    /\ metaF' = [metaF EXCEPT ![e] = <<meta>>]
    /\ lastPut' = [lastPut EXCEPT ![e] =
                      <<data, [created_at |-> ctime, ttl_seconds |-> ttl],
                        dataF[e] # NoFile>>]
    /\ lastDelete' = <<>>
    /\ UNCHANGED ctime
    /\ UNCHANGED nonCacheVars

\* Delete removing the whole namespace directory instead of the pair.
DeleteNamespace(ns, key) ==
    LET e == EntryPath(ns, key) IN
    /\ dataF' = [x \in Entries |-> IF x[1] = e[1] THEN NoFile ELSE dataF[x]]
    /\ metaF' = [x \in Entries |-> IF x[1] = e[1] THEN NoFile ELSE metaF[x]]
    /\ lastPut' = [lastPut EXCEPT ![e] = <<>>]
    /\ lastDelete' = <<e, DeleteRet(dataF[e], metaF[e])>>
    /\ UNCHANGED <<ctime, dirs>>
    /\ UNCHANGED nonCacheVars

Delete(ns, key) ==
    LET e == EntryPath(ns, key) IN
    /\ dataF' = [dataF EXCEPT ![e] = NoFile]
    /\ metaF' = [metaF EXCEPT ![e] = NoFile]
    /\ lastPut' = [lastPut EXCEPT ![e] = <<>>]
    /\ lastDelete' = <<e, DeleteRet(dataF[e], metaF[e])>>
    /\ UNCHANGED <<ctime, dirs>>
    /\ UNCHANGED nonCacheVars

ClearNamespace(ns) ==
    /\ dataF' = [e \in Entries |-> IF e \in Rmtree(ns) THEN NoFile ELSE dataF[e]]
    /\ metaF' = [e \in Entries |-> IF e \in Rmtree(ns) THEN NoFile ELSE metaF[e]]
    /\ dirs' = dirs \ RmtreeDirs(ns)
    /\ lastPut' = [e \in Entries |-> <<>>]
    /\ lastDelete' = <<>>
    /\ UNCHANGED ctime
    /\ UNCHANGED nonCacheVars

ClearAll ==
    /\ dataF' = [e \in Entries |-> NoFile]
    /\ metaF' = [e \in Entries |-> NoFile]
    /\ dirs' = {}
    /\ lastPut' = [e \in Entries |-> <<>>]
    /\ lastDelete' = <<>>
    /\ UNCHANGED ctime
    /\ UNCHANGED nonCacheVars

\* The environment damages the .meta file of an entry on disk.
Corrupt(ns, key, c) ==
    LET e == EntryPath(ns, key) IN
    /\ dataF[e] # NoFile
    /\ metaF[e] # NoFile
    /\ metaF' = [metaF EXCEPT ![e] = <<c>>]
    /\ lastPut' = [lastPut EXCEPT ![e] = <<>>]
    /\ lastDelete' = <<>>
    /\ UNCHANGED <<ctime, dataF, dirs>>
    /\ UNCHANGED nonCacheVars

NextCache ==
    \/ CTick
    \/ \E ns \in Namespaces, key \in Keys : Get(ns, key)
    \/ \E ns \in Namespaces, key \in Keys : Has(ns, key)
    \/ \E ns \in Namespaces, key \in Keys, data \in Bytes, ttl \in TTLs :
          Put(ns, key, data, ttl)
    \/ \E ns \in Namespaces, key \in Keys : Delete(ns, key)
    \/ \E ns \in Namespaces : ClearNamespace(ns)
    \/ ClearAll

\* The cache with two keys in one namespace ("a"), without the clears.
OneNamespace == {<<"a">>}

NextCacheKeys ==
    \/ CTick
    \/ \E ns \in OneNamespace, key \in AllKeys : Get(ns, key)
    \/ \E ns \in OneNamespace, key \in AllKeys : Has(ns, key)
    \/ \E ns \in OneNamespace, key \in AllKeys, data \in Bytes, ttl \in TTLs :
          Put(ns, key, data, ttl)
    \/ \E ns \in OneNamespace, key \in AllKeys : Delete(ns, key)

\* The cache with a .meta file that can be damaged, on the namespaces "a"
\* and "b".
FlatNamespaces == {<<"a">>, <<"b">>}

NextCacheCorrupt ==
    \/ CTick
    \/ \E ns \in FlatNamespaces, key \in Keys : Get(ns, key)
    \/ \E ns \in FlatNamespaces, key \in Keys : Has(ns, key)
    \/ \E ns \in FlatNamespaces, key \in Keys, data \in Bytes, ttl \in TTLs :
          Put(ns, key, data, ttl)
    \/ \E ns \in FlatNamespaces, key \in Keys, c \in CorruptMetas : Corrupt(ns, key, c)


(***************************************************************************)
(*                       FileCache: checked properties                     *)
(***************************************************************************)

\* "before expiry": the age of the entry is at most its ttl, or it has none.
WithinTTL(meta, t) ==
    \/ meta.ttl_seconds = <<>>
    \/ t - meta.created_at <= meta.ttl_seconds[1]

\* C4: after any sequence of puts on an entry, and until it expires or a
\* delete of it or a clear is called, get returns exactly the bytes of the
\* latest put (the empty byte string included), and the metadata on disk
\* is that put's created_at and ttl.
C4_PutGetRoundTrip ==
    \A e \in Entries :
        (lastPut[e] # <<>> /\ WithinTTL(lastPut[e][2], ctime)) =>
            /\ GetRet(dataF[e], metaF[e], ctime) = <<lastPut[e][1]>>
            /\ metaF[e] = <<lastPut[e][2]>>

\* C4 witness: a put of the empty byte string, made at a later time than the
\* entry it replaced and with a ttl, is what get returns.
C4_Witness ==
    \E e \in Entries :
        /\ lastPut[e] # <<>>
        /\ lastPut[e][1] = <<>>
        /\ lastPut[e][3]
        /\ lastPut[e][2].created_at > 0
        /\ lastPut[e][2].ttl_seconds # <<>>
        /\ WithinTTL(lastPut[e][2], ctime)
        /\ GetRet(dataF[e], metaF[e], ctime) = <<<<>>>>

\* C5: for an entry on disk, get returns its bytes and has returns True iff
\* its ttl_seconds is None or now - created_at <= ttl_seconds; otherwise get
\* returns None and has returns False.
C5_VisibleIffWithinTTL ==
    \A e \in Entries :
        (dataF[e] # NoFile /\ metaF[e] # NoFile) =>
            LET within == WithinTTL(ReadMeta(metaF[e]), ctime) IN
            /\ HasRet(dataF[e], metaF[e], ctime) = within
            /\ GetRet(dataF[e], metaF[e], ctime) = (IF within THEN dataF[e] ELSE None)

\* C5 witness: at the same moment one entry is exactly as old as its ttl and
\* visible, another is older than its ttl and not visible, and a permanent
\* entry as old as the clock allows is visible.
C5_Witness ==
    \E e1, e2, e3 \in Entries :
        /\ dataF[e1] # NoFile /\ metaF[e1] # NoFile
        /\ dataF[e2] # NoFile /\ metaF[e2] # NoFile
        /\ dataF[e3] # NoFile /\ metaF[e3] # NoFile
        /\ ReadMeta(metaF[e1]).ttl_seconds # <<>>
        /\ ctime - ReadMeta(metaF[e1]).created_at = ReadMeta(metaF[e1]).ttl_seconds[1]
        /\ HasRet(dataF[e1], metaF[e1], ctime)
        /\ ReadMeta(metaF[e2]).ttl_seconds # <<>>
        /\ ctime - ReadMeta(metaF[e2]).created_at > ReadMeta(metaF[e2]).ttl_seconds[1]
        /\ ~HasRet(dataF[e2], metaF[e2], ctime)
        /\ GetRet(dataF[e2], metaF[e2], ctime) = None
        /\ ReadMeta(metaF[e3]).ttl_seconds = <<>>
        /\ ctime - ReadMeta(metaF[e3]).created_at = MaxCTime
        /\ GetRet(dataF[e3], metaF[e3], ctime) = dataF[e3]

\* C6: a put under one namespace leaves what get returns under every other
\* namespace string unchanged, and clear_namespace(A) leaves every entry of
\* every other namespace string B retrievable with unchanged bytes.
C6_NamespacesIsolated ==
    [][\A A \in Namespaces :
         \A B \in Namespaces \ {A} : \A k \in Keys :
            LET eB == EntryPath(B, k) IN
            (\/ ClearNamespace(A)
             \/ \E d \in Bytes, ttl \in TTLs : Put(A, k, d, ttl)) =>
                GetRet(dataF'[eB], metaF'[eB], ctime')
                    = GetRet(dataF[eB], metaF[eB], ctime)
      ]_vars

\* The metadata is corrupt or unreadable: no JSON, no UTF-8, no object, or
\* an object without created_at.
IsCorrupt(meta) == "corrupt" \in DOMAIN meta \/ "created_at" \notin DOMAIN meta

\* C13: for an entry whose .meta file is corrupt or unreadable, both get and
\* has return (None / False) without raising, and both remove the entry's
\* .data and .meta files.
C13_CorruptIsSoftMiss ==
    \A e \in Entries :
        (dataF[e] # NoFile /\ metaF[e] # NoFile /\ IsCorrupt(metaF[e][1])) =>
            /\ ~CallRaises(dataF[e], metaF[e])
            /\ GetRet(dataF[e], metaF[e], ctime) = None
            /\ GetRemovesPair(dataF[e], metaF[e], ctime)
            /\ ~HasRet(dataF[e], metaF[e], ctime)
            /\ RemovesPair(dataF[e], metaF[e], ctime)

\* An entry on disk, with the metadata put wrote, is expired.
ExpiredOnDisk(e) ==
    /\ dataF[e] # NoFile
    /\ metaF[e] # NoFile
    /\ ~IsCorrupt(metaF[e][1])
    /\ IsExpired(ReadMeta(metaF[e]), ctime)

\* C15: a get or has call that observes an entry as expired reports None /
\* False and removes both its files, so that neither exists afterwards; the
\* passing of time alone removes nothing, so until that call (or a delete or
\* clear) the files of the latest put are both still on disk.
C15_ExpiredRemovedWhenObserved ==
    [][/\ \A e \in Entries :
            ExpiredOnDisk(e) =>
                /\ GetRet(dataF[e], metaF[e], ctime) = None
                /\ ~HasRet(dataF[e], metaF[e], ctime)
                /\ GetRemovesPair(dataF[e], metaF[e], ctime)
                /\ RemovesPair(dataF[e], metaF[e], ctime)
       /\ \A ns \in Namespaces, key \in AllKeys :
            (ExpiredOnDisk(EntryPath(ns, key)) /\ (Get(ns, key) \/ Has(ns, key))) =>
                /\ dataF'[EntryPath(ns, key)] = NoFile
                /\ metaF'[EntryPath(ns, key)] = NoFile
       /\ (ctime' # ctime) => (dataF' = dataF /\ metaF' = metaF)
       /\ \A e \in Entries :
            lastPut[e] # <<>> =>
                \/ dataF[e] # NoFile /\ metaF[e] = <<lastPut[e][2]>>
                \/ /\ dataF[e] = NoFile /\ metaF[e] = NoFile
                   /\ ~WithinTTL(lastPut[e][2], ctime)
      ]_vars

\* C19: delete(namespace, key) returns True iff the entry's files existed;
\* after it get(namespace, key) returns None, and get on every other key of
\* the namespace returns what it returned before, the stored bytes of every
\* live entry.
C19_DeleteRemovesOnlyItsEntry ==
    [][\A ns \in Namespaces, key \in AllKeys :
         LET e == EntryPath(ns, key) IN
         (Delete(ns, key) /\ lastDelete' # <<>> /\ lastDelete'[1] = e) =>
            /\ lastDelete'[2] = (dataF[e] # NoFile /\ metaF[e] # NoFile)
            /\ GetRet(dataF'[e], metaF'[e], ctime') = None
            /\ \A other \in AllKeys \ {key} :
                  LET o == EntryPath(ns, other) IN
                  /\ GetRet(dataF'[o], metaF'[o], ctime')
                        = GetRet(dataF[o], metaF[o], ctime)
                  /\ (lastPut[o] # <<>> /\ WithinTTL(lastPut[o][2], ctime)) =>
                        GetRet(dataF'[o], metaF'[o], ctime') = <<lastPut[o][1]>>
      ]_vars

\* C19 witness: the latest call was a delete that returned True, and the
\* other key of the namespace still holds a live entry with non-empty bytes
\* that had replaced an earlier one.
C19_Witness ==
    /\ lastDelete # <<>>
    /\ lastDelete[2]
    /\ dataF[lastDelete[1]] = NoFile /\ metaF[lastDelete[1]] = NoFile
    /\ \E o \in Entries \ {lastDelete[1]} :
          /\ o[1] = lastDelete[1][1]
          /\ lastPut[o] # <<>>
          /\ lastPut[o][1] # <<>>
          /\ GetRet(dataF[o], metaF[o], ctime) = <<lastPut[o][1]>>

\* C15 witness: an entry was put, expired and, with no delete or clear since
\* the put, has lost both its files to a get or has call, while another
\* expired entry nobody has looked at is still on disk.
C15_Witness ==
    \E e1, e2 \in Entries :
        /\ lastPut[e1] # <<>>
        /\ ~WithinTTL(lastPut[e1][2], ctime)
        /\ dataF[e1] = NoFile /\ metaF[e1] = NoFile
        /\ ExpiredOnDisk(e2)



(***************************************************************************)
(*          FileCache: a get that runs concurrently with the puts          *)
(*                                                                         *)
(* One writer calls put and one reader calls get on the entry ("a", "k"),  *)
(* from different threads or processes; each file-system call is a step.   *)
(***************************************************************************)

\* Bound of the concurrent model: the puts the writer makes.
MaxPuts == 2

RaceEntry == EntryPath(<<"a">>, "k")

\* The content of a file that open(..., "w") has truncated and write() has
\* not reached yet: empty, which is no JSON.
TruncatedMeta == [corrupt |-> "malformed"]
TruncatedData == <<>>

InitRace ==
    /\ wPc = "idle"
    /\ wId = 0
    /\ wData = <<>>
    /\ wTtl = <<>>
    /\ wCreated = 0
    /\ wLost = FALSE
    /\ dataBy = 0
    /\ dataTorn = FALSE
    /\ metaBy = 0
    /\ gPc = "idle"
    /\ gMetaBy = 0
    /\ gRet = <<>>

RaceIdle == InitRace

\* put(namespace, key, data, ttl_seconds) is called: the paths are computed
\* and the directory is made.
PutCall(data, ttl) ==
    /\ wPc = "idle"
    /\ wId < MaxPuts
    /\ wId' = wId + 1
    /\ wData' = data
    /\ wTtl' = ttl
    /\ wPc' = "open_data"
    /\ dirs' = dirs \cup Mkdir(<<"a">>)
    /\ lastDelete' = <<>>
    /\ UNCHANGED <<wCreated, wLost, dataBy, dataTorn, metaBy, gPc, gMetaBy, gRet>>
    /\ UNCHANGED <<ctime, dataF, metaF, lastPut>>
    /\ UNCHANGED nonRaceVars

\* data_path.write_bytes(data), first half: open(data_path, "wb") creates or
\* truncates the file.
PutOpenData ==
    /\ wPc = "open_data"
    /\ dataF' = [dataF EXCEPT ![RaceEntry] = <<TruncatedData>>]
    /\ dataBy' = wId
    /\ dataTorn' = (wData # TruncatedData)
    /\ wLost' = FALSE
    /\ wPc' = "write_data"
    /\ UNCHANGED <<wId, wData, wTtl, wCreated, metaBy, gPc, gMetaBy, gRet>>
    /\ UNCHANGED <<ctime, metaF, dirs, lastPut, lastDelete>>
    /\ UNCHANGED nonRaceVars

\* data_path.write_bytes(data), second half: the bytes reach the open file,
\* which is no longer at data_path when the reader has unlinked it.
PutWriteData ==
    /\ wPc = "write_data"
    /\ IF wLost
       THEN UNCHANGED <<dataF, dataTorn>>
       ELSE /\ dataF' = [dataF EXCEPT ![RaceEntry] = <<wData>>]
            /\ dataTorn' = FALSE
    /\ wPc' = "open_meta"
    /\ UNCHANGED <<wId, wData, wTtl, wCreated, wLost, dataBy, metaBy, gPc, gMetaBy, gRet>>
    /\ UNCHANGED <<ctime, metaF, dirs, lastPut, lastDelete>>
    /\ UNCHANGED nonRaceVars

\* meta = {"created_at": time.time(), ...}; meta_path.write_text(...), first
\* half: open(meta_path, "w") creates or truncates the file.
PutOpenMeta ==
    /\ wPc = "open_meta"
    /\ metaF' = [metaF EXCEPT ![RaceEntry] = <<TruncatedMeta>>]
    /\ metaBy' = wId
    /\ wCreated' = ctime
    /\ wLost' = FALSE
    /\ wPc' = "write_meta"
    /\ UNCHANGED <<wId, wData, wTtl, dataBy, dataTorn, gPc, gMetaBy, gRet>>
    /\ UNCHANGED <<ctime, dataF, dirs, lastPut, lastDelete>>
    /\ UNCHANGED nonRaceVars

\* meta_path.write_text(...), second half, and put returns.
PutWriteMeta ==
    /\ wPc = "write_meta"
    /\ IF wLost
       THEN UNCHANGED metaF
       ELSE metaF' = [metaF EXCEPT ![RaceEntry] =
                         <<PutMeta(metaF[RaceEntry], wCreated, wTtl)>>]
    /\ lastPut' = [lastPut EXCEPT ![RaceEntry] =
                      <<wData, [created_at |-> wCreated, ttl_seconds |-> wTtl],
                        FALSE>>]
    /\ wPc' = "idle"
    /\ UNCHANGED <<wId, wData, wTtl, wCreated, wLost, dataBy, dataTorn, metaBy,
                   gPc, gMetaBy, gRet>>
    /\ UNCHANGED <<ctime, dataF, dirs, lastDelete>>
    /\ UNCHANGED nonRaceVars

\* _remove_pair by the reader: both files are unlinked; what the writer
\* still writes into a file it has open is lost.
ReaderRemovesPair ==
    /\ dataF' = [dataF EXCEPT ![RaceEntry] = NoFile]
    /\ metaF' = [metaF EXCEPT ![RaceEntry] = NoFile]
    /\ wLost' = (wLost \/ wPc \in {"write_data", "write_meta"})
    /\ dataTorn' = FALSE

\* get(namespace, key) is called: `if not data_path.exists() or not
\* meta_path.exists(): return None`.
GetCall ==
    /\ gPc = "idle"
    /\ IF dataF[RaceEntry] = NoFile \/ metaF[RaceEntry] = NoFile
       THEN gRet' = <<"miss">> /\ gPc' = "idle"
       ELSE gRet' = <<>> /\ gPc' = "read_meta"
    /\ gMetaBy' = 0
    /\ lastDelete' = <<>>
    /\ UNCHANGED <<wPc, wId, wData, wTtl, wCreated, wLost, dataBy, dataTorn, metaBy>>
    /\ UNCHANGED <<ctime, dataF, metaF, dirs, lastPut>>
    /\ UNCHANGED nonRaceVars

\* meta = self._read_meta(meta_path), the test for None and the test
\* _is_expired(meta).  A .meta file that is gone is an OSError, hence None.
GetReadMeta ==
    /\ gPc = "read_meta"
    /\ IF \/ metaF[RaceEntry] = NoFile
          \/ ReadMetaFails(metaF[RaceEntry])
          \/ IsExpired(ReadMeta(metaF[RaceEntry]), ctime)
       THEN /\ ReaderRemovesPair
            /\ gRet' = <<"miss">>
            /\ gPc' = "idle"
            /\ UNCHANGED gMetaBy
       ELSE /\ gMetaBy' = metaBy
            /\ gPc' = "read_data"
            /\ UNCHANGED <<dataF, metaF, wLost, dataTorn, gRet>>
    /\ UNCHANGED <<wPc, wId, wData, wTtl, wCreated, dataBy, metaBy>>
    /\ UNCHANGED <<ctime, dirs, lastPut, lastDelete>>
    /\ UNCHANGED nonRaceVars

\* return data_path.read_bytes(): <<"hit", the bytes, the put that opened the
\* data file, whether the bytes are those of a truncated file, the put whose
\* metadata was validated>>.
GetReadData ==
    /\ gPc = "read_data"
    /\ gRet' = IF dataF[RaceEntry] = NoFile THEN <<"raise">>
               ELSE <<"hit", dataF[RaceEntry][1], dataBy, dataTorn, gMetaBy>>
    /\ gPc' = "idle"
    /\ UNCHANGED <<wPc, wId, wData, wTtl, wCreated, wLost, dataBy, dataTorn,
                   metaBy, gMetaBy>>
    /\ UNCHANGED <<ctime, dataF, metaF, dirs, lastPut, lastDelete>>
    /\ UNCHANGED nonRaceVars

\* time.time() advances.
RaceTick ==
    /\ ctime < MaxCTime
    /\ ctime' = ctime + 1
    /\ UNCHANGED <<dataF, metaF, dirs, lastPut, lastDelete>>
    /\ UNCHANGED raceVars
    /\ UNCHANGED nonRaceVars

NextRace ==
    \/ \E data \in Bytes, ttl \in TTLs : PutCall(data, ttl)
    \/ PutOpenData
    \/ PutWriteData
    \/ PutOpenMeta
    \/ PutWriteMeta
    \/ GetCall
    \/ GetReadMeta
    \/ GetReadData
    \/ RaceTick

\* C14: a get that runs concurrently with puts on its key returns None, or
\* the complete bytes of one put together with the validated metadata of
\* that same put: never the bytes of a truncated file, never the data of one
\* put under the created_at / ttl of another.
C14_NoTornOrMismatchedRead ==
    (gRet # <<>> /\ gRet[1] # "miss") =>
        /\ gRet[1] = "hit"
        /\ ~gRet[4]
        /\ gRet[3] = gRet[5]

\* C29: once a put has returned, and while its entry has not expired (the
\* concurrent model has no delete and no clear), a get returns the bytes of
\* that put, whatever get calls of the reader ran between the put's two file
\* writes: the reader's cleanup does not destroy the entry being written.
C29_PutSurvivesReaders ==
    (/\ wPc = "idle"
     /\ gPc = "idle"
     /\ lastPut[RaceEntry] # <<>>
     /\ WithinTTL(lastPut[RaceEntry][2], ctime)) =>
        GetRet(dataF[RaceEntry], metaF[RaceEntry], ctime) = <<lastPut[RaceEntry][1]>>


(***************************************************************************)
(*                               Hermes.run                                *)
(***************************************************************************)

\* Bounds of the run model.
MaxRuns == 3
MaxFail == 4

\* HermesConfig defaults.
LlmMaxRetries == 3
LlmRetryMaxWait == 120

ErrKinds == {"429", "other"}

InitRun ==
    /\ hInit = FALSE
    /\ maxRetries \in 0..LlmMaxRetries
    /\ runPc = "idle"
    /\ failFirst = 0
    /\ errKind = "429"
    /\ attempts = 0
    /\ sleeps = 0
    /\ maxSlept = 0
    /\ runsDone = 0

RunIdle == InitRun /\ maxRetries = LlmMaxRetries

\* run() is called: _ensure_initialized(), _get_llm(), build_workflow().  The
\* workflow it is about to invoke fails on its first k attempts with an error
\* of the given kind.
RunCall(k, kind) ==
    /\ runPc \in {"idle", "returned", "raised"}
    /\ runsDone < MaxRuns
    /\ hInit' = TRUE
    /\ runPc' = "called"
    /\ failFirst' = k
    /\ errKind' = kind
    /\ attempts' = 0
    /\ sleeps' = 0
    /\ maxSlept' = 0
    /\ UNCHANGED <<maxRetries, runsDone>>
    /\ UNCHANGED nonRunVars

\* handler = workflow.run(...); result = await handler; return.  There is no
\* try/except around the await: an error of the workflow leaves run() at once.
RunAwait ==
    /\ runPc = "called"
    /\ attempts' = attempts + 1
    /\ runPc' = IF attempts + 1 > failFirst THEN "returned" ELSE "raised"
    /\ runsDone' = runsDone + 1
    /\ UNCHANGED <<hInit, maxRetries, failFirst, errKind, sleeps, maxSlept>>
    /\ UNCHANGED nonRunVars

NextRun ==
    \/ \E k \in 0..MaxFail, kind \in ErrKinds : RunCall(k, kind)
    \/ RunAwait

(***************************************************************************)
(*                      Hermes.run: checked properties                     *)
(***************************************************************************)

RunFinished == runPc \in {"returned", "raised"}

\* C7: when the workflow fails with a rate-limit error on its first k
\* attempts and succeeds on the next, with k <= llm_max_retries, run()
\* re-invokes it, sleeps once before each retry (k sleeps) and returns the
\* successful response.
C7_RetriesThenSucceeds ==
    (RunFinished /\ errKind = "429" /\ failFirst <= maxRetries) =>
        /\ runPc = "returned"
        /\ attempts = failFirst + 1
        /\ sleeps = failFirst

\* C8: when every attempt fails with a rate-limit error, run() makes
\* llm_max_retries retries (llm_max_retries + 1 attempts in total) and no
\* more, each after a wait of at most llm_retry_max_wait seconds, and then
\* raises the error.
C8_GivesUpAtCeiling ==
    (RunFinished /\ errKind = "429" /\ failFirst > maxRetries) =>
        /\ runPc = "raised"
        /\ attempts = maxRetries + 1
        /\ sleeps = maxRetries
        /\ maxSlept <= LlmRetryMaxWait


(***************************************************************************)
(*                           _parse_go_duration                            *)
(*                                                                         *)
(* Strings are sequences of characters.  Durations are integers in units   *)
(* of 1/10000 second, which is exact for every number with at most one     *)
(* fractional digit, the only numbers the inputs below hold.               *)
(***************************************************************************)

\* Bound of the duration model: the components of an input string.
MaxComps == 2

Digit == {"0", "1", "2", "3", "4", "5", "6", "7", "8", "9"}

Letter == {"a", "b", "c", "d", "e", "f", "g", "h", "i", "j", "k", "l", "m",
           "n", "o", "p", "q", "r", "s", "t", "u", "v", "w", "x", "y", "z"}

DigitVal(c) ==
    CASE c = "0" -> 0 [] c = "1" -> 1 [] c = "2" -> 2 [] c = "3" -> 3
      [] c = "4" -> 4 [] c = "5" -> 5 [] c = "6" -> 6 [] c = "7" -> 7
      [] c = "8" -> 8 [] c = "9" -> 9

\* The first index >= i of s that holds no character of `class`.
RECURSIVE SpanEnd(_, _, _)
SpanEnd(s, i, class) ==
    IF i <= Len(s) /\ s[i] \in class THEN SpanEnd(s, i + 1, class) ELSE i

\* The number written by the digits s[a .. b-1].
RECURSIVE DigitsValue(_, _, _)
DigitsValue(s, a, b) ==
    IF b <= a THEN 0 ELSE DigitsValue(s, a, b - 1) * 10 + DigitVal(s[b - 1])

RECURSIVE Pow10(_)
Pow10(n) == IF n = 0 THEN 1 ELSE 10 * Pow10(n - 1)

\* re.findall(r"(\d+(?:\.\d+)?)([a-z]+)", s) from index i on: the matches in
\* order, each <<numerator, denominator, unit, length>> with val =
\* numerator/denominator.  A match at i takes the longest run of digits, then
\* "." and the longest run of digits when both are there, then the longest
\* run of letters, which must not be empty; without a match at i the scan
\* moves to i + 1, after a match to its end.
RECURSIVE FindAll(_, _)
FindAll(s, i) ==
    IF i > Len(s) THEN <<>>
    ELSE IF s[i] \notin Digit THEN FindAll(s, i + 1)
    ELSE LET j == SpanEnd(s, i, Digit)
             hasFrac == j + 1 <= Len(s) /\ s[j] = "." /\ s[j + 1] \in Digit
             k == IF hasFrac THEN SpanEnd(s, j + 1, Digit) ELSE j
             l == SpanEnd(s, k, Letter)
             num == IF hasFrac
                    THEN DigitsValue(s, i, j) * Pow10(k - j - 1) + DigitsValue(s, j + 1, k)
                    ELSE DigitsValue(s, i, j)
             den == IF hasFrac THEN Pow10(k - j - 1) ELSE 1
         IN IF l > k
            THEN <<<<num, den, SubSeq(s, k, l - 1), l - i>>>> \o FindAll(s, l)
            ELSE FindAll(s, i + 1)

\* `match unit`: the seconds of one unit, in 1/10000 s; 0 for any other unit
\* (UnitValueNoMs: a mutant without the "ms" case).
UnitValueNoMs(unit) ==
    CASE unit = <<"h">> -> 36000000
      [] unit = <<"m">> -> 600000
      [] unit = <<"s">> -> 10000
      [] OTHER -> 0
UnitValue(unit) ==
    CASE unit = <<"h">> -> 36000000
      [] unit = <<"m">> -> 600000
      [] unit = <<"s">> -> 10000
      [] unit = <<"m", "s">> -> 10
      [] OTHER -> 0

\* total += v * 3600 | v * 60 | v | v / 1000, over the matches.
RECURSIVE SumMatches(_, _)
SumMatches(ms, n) ==
    IF n = 0 THEN 0
    ELSE SumMatches(ms, n - 1) + (ms[n][1] * UnitValue(ms[n][3])) \div ms[n][2]

ParseGoDuration(s) == SumMatches(FindAll(s, 1), Len(FindAll(s, 1)))

\* float(val) succeeds on digits with an optional "." and digits (the plain
\* numbers among the strings below); its value in 1/10000 s.
IsFloat(s) ==
    LET j == SpanEnd(s, 1, Digit) IN
    /\ j > 1
    /\ \/ j = Len(s) + 1
       \/ /\ j < Len(s)
          /\ s[j] = "."
          /\ SpanEnd(s, j + 1, Digit) = Len(s) + 1

FloatValue(s) ==
    LET j == SpanEnd(s, 1, Digit) IN
    IF j = Len(s) + 1 THEN DigitsValue(s, 1, j) * 10000
    ELSE ((DigitsValue(s, 1, j) * Pow10(Len(s) - j) + DigitsValue(s, j + 1, Len(s) + 1))
             * 10000) \div Pow10(Len(s) - j)

\* The inputs: strings written from number+unit components, each component
\* <<number in tenths, unit>>.
Components ==
    {<<60, <<"m">>>>, <<20, <<"s">>>>, <<10, <<"h">>>>, <<300, <<"m">>>>,
     <<5000, <<"m", "s">>>>, <<530, <<"s">>>>, <<15, <<"s">>>>, <<15, <<"h">>>>,
     <<25, <<"m", "s">>>>}

DigitChar(d) ==
    CASE d = 0 -> "0" [] d = 1 -> "1" [] d = 2 -> "2" [] d = 3 -> "3"
      [] d = 4 -> "4" [] d = 5 -> "5" [] d = 6 -> "6" [] d = 7 -> "7"
      [] d = 8 -> "8" [] d = 9 -> "9"

\* The decimal digits of n >= 0.
RECURSIVE Decimal(_)
Decimal(n) == IF n < 10 THEN <<DigitChar(n)>> ELSE Append(Decimal(n \div 10), DigitChar(n % 10))

\* How a component is written: "6m", "1.5s", "500ms".
WriteComponent(c) ==
    (IF c[1] % 10 = 0
     THEN Decimal(c[1] \div 10)
     ELSE Decimal(c[1] \div 10) \o <<".">> \o <<DigitChar(c[1] % 10)>>) \o c[2]

RECURSIVE WriteAll(_, _)
WriteAll(cs, n) == IF n = 0 THEN <<>> ELSE WriteAll(cs, n - 1) \o WriteComponent(cs[n])

CompSeqs == UNION {[1..n -> Components] : n \in 1..MaxComps}

InitDur ==
    /\ dComps \in CompSeqs
    /\ dInput = WriteAll(dComps, Len(dComps))
    /\ dResult = <<>>

DurIdle ==
    /\ dComps = <<>>
    /\ dInput = <<>>
    /\ dResult = <<>>

\* _parse_go_duration(s) is called.
ParseCall ==
    /\ dResult = <<>>
    /\ dResult' = <<ParseGoDuration(dInput)>>
    /\ UNCHANGED <<dComps, dInput>>
    /\ UNCHANGED nonDurVars

NextDur == ParseCall

(***************************************************************************)
(*                  _parse_go_duration: checked properties                 *)
(***************************************************************************)

\* The seconds of one component by the units' definitions: h = 3600 s,
\* m = 60 s, s = 1 s, ms = 1/1000 s; in 1/10000 s, for a number in tenths.
ComponentSeconds(c) ==
    c[1] * (CASE c[2] = <<"h">> -> 3600 * 1000
              [] c[2] = <<"m">> -> 60 * 1000
              [] c[2] = <<"s">> -> 1000
              [] c[2] = <<"m", "s">> -> 1)

RECURSIVE SumComponents(_, _)
SumComponents(cs, n) ==
    IF n = 0 THEN 0 ELSE SumComponents(cs, n - 1) + ComponentSeconds(cs[n])

\* C10: for a string written from number+unit components with the units h,
\* m, s and ms in any combination and order, _parse_go_duration returns the
\* sum of the components in seconds.
C10_SumsComponents ==
    dResult # <<>> => dResult[1] = SumComponents(dComps, Len(dComps))

\* C10 witness: "500ms" followed by "6m" has been parsed to 360.5 seconds.
C10_Witness ==
    /\ dComps = <<<<5000, <<"m", "s">>>>, <<60, <<"m">>>>>>
    /\ dInput = <<"5", "0", "0", "m", "s", "6", "m">>
    /\ dResult = <<3605000>>


(***************************************************************************)
(*                           extract_retry_after                           *)
(***************************************************************************)

\* RetryConfig.base_backoff, 30.0 s by default, in 1/10000 s.
DefaultBaseBackoff == 300000

Providers == {"anthropic", "openai", "xai", "deepseek", "google", "mistral"}

OpenAIFamily == {"openai", "xai", "deepseek"}

\* A header (or JSON field) that is missing is <<>>; one that holds the
\* string s is <<s>>.
Missing == <<>>

\* The strings headers hold: "20", "1.5", "6m2s", "53s", "soon" and "".
HeaderStrings ==
    {<<"2", "0">>, <<"1", ".", "5">>, <<"6", "m", "2", "s">>, <<"5", "3", "s">>,
     <<"s", "o", "o", "n">>, <<>>}

HeaderValues == {Missing} \cup {<<str>> : str \in HeaderStrings}

\* exc.response.json(): <<FALSE, <<>>>> when it raises ValueError, else
\* <<TRUE, error.details>>, each detail <<whether @type ends with RetryInfo,
\* retryDelay>>.
NoJson == <<FALSE, <<>>>>

Bodies ==
    {NoJson} \cup
    {<<TRUE, details>> : details \in
        {<<>>,
         <<<<TRUE, <<<<"5", "3", "s">>>>>>>>,
         <<<<FALSE, <<<<"5", "3", "s">>>>>>, <<TRUE, <<<<"s", "o", "o", "n">>>>>>>>,
         <<<<TRUE, <<<<>>>>>>>>,
         <<<<TRUE, Missing>>>>,
         <<<<FALSE, <<<<"5", "3", "s">>>>>>, <<TRUE, <<<<"6", "m", "2", "s">>>>>>>>}}

\* exc.retry_delay: <<>> when exc has no such attribute, else <<seconds, nanos>>.
RetryDelays == {<<>>, <<0, 0>>, <<45, 0>>, <<0, 500000000>>}

\* The exceptions: hasResponse is FALSE when exc.response is None or absent.
\* Only the attributes the provider's branch reads vary.
BlankExc ==
    [hasResponse |-> FALSE, retryAfter |-> Missing, resetRequests |-> Missing,
     resetTokens |-> Missing, body |-> NoJson, retryDelay |-> <<>>]

ExcsFor(provider) ==
    IF provider = "anthropic"
    THEN {[BlankExc EXCEPT !.hasResponse = r, !.retryAfter = h] :
              r \in BOOLEAN, h \in HeaderValues}
    ELSE IF provider \in OpenAIFamily
    THEN {[BlankExc EXCEPT !.hasResponse = r, !.retryAfter = h,
                           !.resetRequests = q, !.resetTokens = t] :
              r \in BOOLEAN, h \in HeaderValues, q \in HeaderValues, t \in HeaderValues}
    ELSE IF provider = "google"
    THEN {[BlankExc EXCEPT !.hasResponse = r, !.body = b, !.retryDelay = d] :
              r \in BOOLEAN, b \in Bodies, d \in RetryDelays}
    ELSE {[BlankExc EXCEPT !.hasResponse = r, !.retryAfter = h] :
              r \in BOOLEAN, h \in HeaderValues}

\* The anthropic branch: <<>> when it falls through, <<wait>> when it returns.
AnthropicWait(exc) ==
    IF ~exc.hasResponse THEN <<>>                        \* AttributeError
    ELSE IF exc.retryAfter = Missing THEN <<>>
    ELSE IF IsFloat(exc.retryAfter[1]) THEN <<FloatValue(exc.retryAfter[1])>>
    ELSE <<>>                                            \* ValueError

\* The openai / xai / deepseek branch.
OpenAIWait(exc) ==
    IF ~exc.hasResponse THEN <<>>                        \* AttributeError
    ELSE IF exc.retryAfter # Missing
    THEN IF IsFloat(exc.retryAfter[1])
         THEN <<FloatValue(exc.retryAfter[1])>>
         ELSE <<ParseGoDuration(exc.retryAfter[1])>>     \* except ValueError
    ELSE IF exc.resetRequests # Missing /\ exc.resetRequests[1] # <<>>
    THEN <<ParseGoDuration(exc.resetRequests[1])>>
    ELSE IF exc.resetTokens # Missing /\ exc.resetTokens[1] # <<>>
    THEN <<ParseGoDuration(exc.resetTokens[1])>>
    ELSE <<>>

\* The google branch, JSON body: the first RetryInfo detail whose retryDelay is
\* a non-empty string decides.
RECURSIVE DetailsWait(_, _)
DetailsWait(details, i) ==
    IF i > Len(details) THEN <<>>
    ELSE IF details[i][1] /\ details[i][2] # Missing /\ details[i][2][1] # <<>>
    THEN <<ParseGoDuration(details[i][2][1])>>
    ELSE DetailsWait(details, i + 1)

GoogleBodyWait(exc) ==
    IF ~exc.hasResponse THEN <<>>                        \* AttributeError
    ELSE IF ~exc.body[1] THEN <<>>                       \* ValueError
    ELSE DetailsWait(exc.body[2], 1)

\* The google branch, proto Duration attribute: seconds + nanos / 1e9 when > 0.
GoogleProtoWait(exc) ==
    IF exc.retryDelay = <<>> THEN <<>>                   \* AttributeError
    ELSE LET total == exc.retryDelay[1] * 10000 + (exc.retryDelay[2] \div 100000) IN
         IF total > 0 THEN <<total>> ELSE <<>>

ExtractRetryAfter(provider, exc, backoff) ==
    LET w == IF provider = "anthropic" THEN AnthropicWait(exc)
             ELSE IF provider \in OpenAIFamily THEN OpenAIWait(exc)
             ELSE IF provider = "google"
             THEN IF GoogleBodyWait(exc) # <<>> THEN GoogleBodyWait(exc)
                  ELSE GoogleProtoWait(exc)
             ELSE <<>>
    IN IF w # <<>> THEN w[1] ELSE backoff

InitRetry ==
    /\ rProvider \in Providers
    /\ rExc \in ExcsFor(rProvider)
    /\ rBackoff \in {DefaultBaseBackoff, 70000}
    /\ rResult = <<>>

RetryIdle ==
    /\ rProvider = "mistral"
    /\ rExc = BlankExc
    /\ rBackoff = DefaultBaseBackoff
    /\ rResult = <<>>

\* extract_retry_after(exc, provider, config) is called.
ExtractCall ==
    /\ rResult = <<>>
    /\ rResult' = <<ExtractRetryAfter(rProvider, rExc, rBackoff)>>
    /\ UNCHANGED <<rProvider, rExc, rBackoff>>
    /\ UNCHANGED nonRetryVars

NextRetry == ExtractCall

(***************************************************************************)
(*                  extract_retry_after: checked properties                *)
(***************************************************************************)

RECURSIVE MatchedLength(_, _)
MatchedLength(ms, n) == IF n = 0 THEN 0 ELSE MatchedLength(ms, n - 1) + ms[n][4]

\* A string parses as a duration when it is made of number+unit components
\* with known units and of nothing else.
IsDuration(s) ==
    LET ms == FindAll(s, 1) IN
    /\ Len(ms) > 0
    /\ MatchedLength(ms, Len(ms)) = Len(s)
    /\ \A n \in 1..Len(ms) : ms[n][3] \in {<<"h">>, <<"m">>, <<"s">>, <<"m", "s">>}

NumericParses(h) == h # Missing /\ IsFloat(h[1])
DurationParses(h) == h # Missing /\ IsDuration(h[1])

\* Whether one of the provider's signals parses to a wait duration: the
\* numeric retry-after header (anthropic, openai family), a duration-string
\* header (openai family), the RetryInfo retryDelay of the JSON body or the
\* structured retry_delay object (google).
SomeSignalParses(provider, exc) ==
    IF provider = "anthropic"
    THEN exc.hasResponse /\ NumericParses(exc.retryAfter)
    ELSE IF provider \in OpenAIFamily
    THEN /\ exc.hasResponse
         /\ \/ NumericParses(exc.retryAfter)
            \/ DurationParses(exc.retryAfter)
            \/ DurationParses(exc.resetRequests)
            \/ DurationParses(exc.resetTokens)
    ELSE IF provider = "google"
    THEN \/ /\ exc.hasResponse
            /\ exc.body[1]
            /\ \E i \in 1..Len(exc.body[2]) :
                  exc.body[2][i][1] /\ DurationParses(exc.body[2][i][2])
         \/ /\ exc.retryDelay # <<>>
            /\ exc.retryDelay[1] * 10000 + (exc.retryDelay[2] \div 100000) > 0
    ELSE FALSE

\* C9: extract_retry_after returns config.base_backoff whenever none of the
\* provider's signals parses to a wait duration (response or header missing,
\* header or retryDelay present but not parseable, provider unknown).
C9_FallsBackToBaseBackoff ==
    (rResult # <<>> /\ ~SomeSignalParses(rProvider, rExc)) =>
        rResult[1] = rBackoff


(***************************************************************************)
(*              SecFilingParser.parse and TranscriptParser.parse           *)
(*                                                                         *)
(* A document is a sequence of items: the text blocks of a filing, the     *)
(* blank-line separated lines and paragraphs of a transcript.  A text (a   *)
(* Python str) is the sequence of its paragraphs, the pieces between its   *)
(* "\n\n" separators; a paragraph is <<item, offset, len>>, the len        *)
(* characters from `offset` on of the input item number `item`.  The empty *)
(* string is <<>>.                                                         *)
(***************************************************************************)

\* Bound of the parser model: the items of a document.
MaxBlocks == 4

\* SecFilingParser.MIN_SECTION_LENGTH, MAX_NODE_LENGTH.
MinSectionLength == 200
SecMaxNodeLength == 8000

\* TranscriptParser.MIN_SEGMENT_LENGTH, MAX_NODE_LENGTH.
MinSegmentLength == 50
TranscriptMaxNodeLength == 6000

RECURSIVE SumLens(_, _)
SumLens(text, n) == IF n = 0 THEN 0 ELSE SumLens(text, n - 1) + text[n][3]

\* len(text): the paragraphs and the "\n\n" between them.
TextLen(text) ==
    IF text = <<>> THEN 0 ELSE SumLens(text, Len(text)) + 2 * (Len(text) - 1)

\* HardSlices with range(from, len(para) - max + 1, max): the full slices
\* only, without the rest of the paragraph.
RECURSIVE HardSlicesFull(_, _, _)
HardSlicesFull(para, from, max) ==
    IF from + max > para[3] THEN <<>>
    ELSE <<<<<<para[1], para[2] + from, max>>>>>>
             \o HardSlicesFull(para, from + max, max)

\* HardSlices without the slicing: the paragraph whole.
HardSlicesWhole(para, from, max) == <<<<para>>>>

\* para[i : i + max] for i in range(from, len(para), max), each a chunk.
RECURSIVE HardSlices(_, _, _)
HardSlices(para, from, max) ==
    IF from >= para[3] THEN <<>>
    ELSE <<<<<<para[1], para[2] + from, Min(max, para[3] - from)>>>>>>
             \o HardSlices(para, from + max, max)

\* The loop `for para in paragraphs` of _split_long_text from paragraph i on,
\* and the final flush.
RECURSIVE SplitLoop(_, _, _, _, _, _)
SplitLoop(paragraphs, i, chunks, current, currentLength, max) ==
    IF i > Len(paragraphs)
    THEN IF current # <<>> THEN Append(chunks, current) ELSE chunks
    ELSE LET para == paragraphs[i]
             paraLen == para[3] + 2
             flush == currentLength + paraLen > max /\ current # <<>>
             chunks1 == IF flush THEN Append(chunks, current) ELSE chunks
             current1 == IF flush THEN <<>> ELSE current
             length1 == IF flush THEN 0 ELSE currentLength
         IN IF paraLen > max
            THEN SplitLoop(paragraphs, i + 1, chunks1 \o HardSlices(para, 0, max),
                           current1, length1, max)
            ELSE SplitLoop(paragraphs, i + 1, chunks1, Append(current1, para),
                           length1 + paraLen, max)

\* text.split("\n\n"): the paragraphs; [""] for the empty string.
SplitParagraphs(text) == IF text = <<>> THEN <<<<0, 0, 0>>>> ELSE text

\* _split_long_text of either parser, with its MAX_NODE_LENGTH.
SplitLongText(text, max) ==
    IF TextLen(text) <= max THEN <<text>>
    ELSE SplitLoop(SplitParagraphs(text), 1, <<>>, <<>>, 0, max)

\* The nodes of one section or segment: one per chunk, with chunk_index and
\* total_chunks (<<>> when there is one chunk only).
ChunkNodes(meta, chunks) ==
    [i \in 1..Len(chunks) |->
        [meta |-> meta, text |-> chunks[i],
         chunk |-> IF Len(chunks) > 1 THEN <<i - 1, Len(chunks)>> ELSE <<>>]]

\* ---- SecFilingParser ----

\* The text blocks _extract_text_blocks returns: match is what
\* _identify_section makes of the block (<<>> for None, else <<section_id,
\* section_name>>), raw its length, extra the number of characters _clean_text
\* removes from it (runs of blanks, tabs, surplus newlines).
Headings ==
    {[match |-> <<"item 1", "Business">>, raw |-> 6, extra |-> 0, marker |-> FALSE],
     [match |-> <<"item 7", "MD&A">>, raw |-> 6, extra |-> 0, marker |-> FALSE]}

TextBlocks ==
    {[match |-> <<>>, raw |-> l[1], extra |-> l[2], marker |-> FALSE] :
        l \in {<<2, 0>>, <<199, 0>>, <<203, 4>>, <<200, 0>>, <<7998, 0>>,
               <<7999, 0>>, <<16001, 0>>}}

SecDocuments == UNION {[1..n -> Headings \cup TextBlocks] : n \in 0..MaxBlocks}

IdentifySection(block) == block.match

\* SectionsLoop without `current_text_parts = []` at a heading.
RECURSIVE SectionsLoopKeep(_, _, _, _, _)
SectionsLoopKeep(blocks, i, sections, current, parts) ==
    LET saved == IF parts # <<>>
                 THEN Append(sections, <<current[1], current[2], parts>>)
                 ELSE sections
    IN IF i > Len(blocks) THEN saved
       ELSE IF IdentifySection(blocks[i]) # <<>>
       THEN SectionsLoopKeep(blocks, i + 1, saved, IdentifySection(blocks[i]), parts)
       ELSE SectionsLoopKeep(blocks, i + 1, sections, current,
                             Append(parts, <<i, 0, blocks[i].raw>>))

\* The loop of _split_into_sections from block i on, and the final section.
\* "\n\n".join(current_text_parts) is the text whose paragraphs are the parts.
RECURSIVE SectionsLoop(_, _, _, _, _)
SectionsLoop(blocks, i, sections, current, parts) ==
    LET saved == IF parts # <<>>
                 THEN Append(sections, <<current[1], current[2], parts>>)
                 ELSE sections
    IN IF i > Len(blocks) THEN saved
       ELSE IF IdentifySection(blocks[i]) # <<>>
       THEN SectionsLoop(blocks, i + 1, saved, IdentifySection(blocks[i]), <<>>)
       ELSE SectionsLoop(blocks, i + 1, sections, current,
                         Append(parts, <<i, 0, blocks[i].raw>>))

SplitIntoSections(blocks) ==
    SectionsLoop(blocks, 1, <<>>, <<"preamble", "Preamble">>, <<>>)

\* _clean_text of a section text: each block loses its surplus whitespace.
CleanText(text, blocks) ==
    [n \in 1..Len(text) |->
        <<text[n][1], text[n][2], text[n][3] - blocks[text[n][1]].extra>>]

\* The loop `for section_id, section_name, section_text in sections` of parse
\* from section i on.
RECURSIVE SecNodes(_, _, _)
SecNodes(sections, i, blocks) ==
    IF i > Len(sections) THEN <<>>
    ELSE LET cleanText == CleanText(sections[i][3], blocks) IN
         IF TextLen(cleanText) < MinSectionLength
         THEN SecNodes(sections, i + 1, blocks)
         ELSE ChunkNodes(<<sections[i][1], sections[i][2]>>,
                         SplitLongText(cleanText, SecMaxNodeLength))
                  \o SecNodes(sections, i + 1, blocks)

\* ---- TranscriptParser ----

\* The lines and paragraphs of a transcript, "\n\n" between them.  match is
\* <<name, role>> for a line one of the speaker patterns matches and <<>> for
\* any other paragraph, raw the length, marker whether the paragraph starts
\* with a Q&A marker phrase.
SpeakerLines ==
    {[match |-> <<"Operator", "Operator">>, raw |-> 8, extra |-> 0, marker |-> FALSE],
     [match |-> <<"Tim Cook", "CEO">>, raw |-> 15, extra |-> 0, marker |-> FALSE]}

Paragraphs ==
    {[match |-> <<>>, raw |-> l, extra |-> 0, marker |-> FALSE] :
        l \in {0, 49, 50, 5998, 5999, 12001}}
    \cup {[match |-> <<>>, raw |-> 50, extra |-> 0, marker |-> TRUE]}

Transcripts == UNION {[1..n -> SpeakerLines \cup Paragraphs] : n \in 0..MaxBlocks}

\* The index in the text of the first character of item i.
RECURSIVE ItemStart(_, _)
ItemStart(items, i) ==
    IF i = 1 THEN 0 ELSE ItemStart(items, i - 1) + items[i - 1].raw + 2

\* _find_qa_boundary keeping the latest marker (`idx > earliest`).
FindQaBoundaryLatest(items) ==
    LET marked == {i \in 1..Len(items) : items[i].marker} IN
    IF marked = {} THEN <<>>
    ELSE <<ItemStart(items, CHOOSE i \in marked : \A j \in marked : i >= j)>>

\* _find_qa_boundary: the index of the earliest marker, <<>> for None.
FindQaBoundary(items) ==
    LET marked == {i \in 1..Len(items) : items[i].marker} IN
    IF marked = {} THEN <<>>
    ELSE <<ItemStart(items, CHOOSE i \in marked : \A j \in marked : i <= j)>>

\* The first of the empty paragraphs that end just before item i (i when
\* there is none).
RECURSIVE BlankRunStart(_, _)
BlankRunStart(items, i) ==
    IF i > 1 /\ items[i - 1].match = <<>> /\ items[i - 1].raw = 0
    THEN BlankRunStart(items, i - 1) ELSE i

\* match.start() of the speaker line that is item i.  _SPEAKER_DASH_PATTERN
\* starts at the name; the \s* of _OPERATOR_PATTERN also takes the blank lines
\* before the line, from the first line start on.
BoundaryStart(items, i) ==
    IF items[i].match[1] = "Operator"
    THEN LET j == BlankRunStart(items, i) IN
         IF j = 1 THEN 0 ELSE ItemStart(items, j) - 1
    ELSE ItemStart(items, i)

\* The whitespace a slice of the text keeps of a "\n\n" at its end.
Blank == <<0, 0, 0>>

\* The paragraphs of the items a..b.
ItemParagraphs(items, a, b) == [n \in 1..(b - a + 1) |-> <<a + n - 1, 0, items[a + n - 1].raw>>]

\* The loop over the boundaries of _split_by_speaker from boundary n on:
\* text[end:next_start], or text[end:] for the last.
RECURSIVE SpeakerSegments(_, _, _)
SpeakerSegments(items, boundaries, n) ==
    IF n > Len(boundaries) THEN <<>>
    ELSE LET i == boundaries[n]
             last == n = Len(boundaries)
             to == IF last THEN Len(items) ELSE boundaries[n + 1] - 1
         IN <<[speaker |-> items[i].match[1], role |-> items[i].match[2],
               text |-> <<Blank>> \o ItemParagraphs(items, i + 1, to)
                            \o (IF last THEN <<>> ELSE <<Blank>>),
               start_pos |-> BoundaryStart(items, i)]>>
                \o SpeakerSegments(items, boundaries, n + 1)

\* The indices of the speaker lines among the items i.., in document order
\* (the sorted boundaries).
RECURSIVE Boundaries(_, _)
Boundaries(items, i) ==
    IF i > Len(items) THEN <<>>
    ELSE (IF items[i].match # <<>> THEN <<i>> ELSE <<>>) \o Boundaries(items, i + 1)

SplitBySpeaker(items) ==
    LET boundaries == Boundaries(items, 1) IN
    IF boundaries = <<>>
    THEN <<[speaker |-> "Unknown", role |-> "Unknown",
            text |-> ItemParagraphs(items, 1, Len(items)), start_pos |-> 0]>>
    ELSE (IF BoundaryStart(items, boundaries[1]) > MinSegmentLength
          THEN <<[speaker |-> "Header", role |-> "Preamble",
                  text |-> ItemParagraphs(items, 1, boundaries[1] - 1) \o <<Blank>>,
                  start_pos |-> 0]>>
          ELSE <<>>)
         \o SpeakerSegments(items, boundaries, 1)

\* str.strip() of a segment text: the empty paragraphs at its ends, and the
\* separators around them, go.
RECURSIVE Strip(_)
Strip(text) ==
    IF text = <<>> THEN <<>>
    ELSE IF text[1][3] = 0 THEN Strip(Tail(text))
    ELSE IF text[Len(text)][3] = 0 THEN Strip(SubSeq(text, 1, Len(text) - 1))
    ELSE text

\* The loop `for segment in segments` of parse from segment i on.
RECURSIVE TranscriptNodes(_, _, _)
TranscriptNodes(segments, i, qaStartIdx) ==
    IF i > Len(segments) THEN <<>>
    ELSE LET segmentText == Strip(segments[i].text)
             section == IF qaStartIdx # <<>> /\ segments[i].start_pos >= qaStartIdx[1]
                        THEN "q_and_a" ELSE "prepared_remarks"
         IN IF TextLen(segmentText) < MinSegmentLength
            THEN TranscriptNodes(segments, i + 1, qaStartIdx)
            ELSE ChunkNodes(<<segments[i].speaker, segments[i].role, section>>,
                            SplitLongText(segmentText, TranscriptMaxNodeLength))
                     \o TranscriptNodes(segments, i + 1, qaStartIdx)

\* ---- The calls ----

InitParse ==
    /\ pParser \in {"sec", "transcript"}
    /\ pInput \in IF pParser = "sec" THEN SecDocuments ELSE Transcripts
    /\ pSections = <<>>
    /\ pNodes = <<>>
    /\ pDone = FALSE

ParseIdle ==
    /\ pParser = "sec"
    /\ pInput = <<>>
    /\ pSections = <<>>
    /\ pNodes = <<>>
    /\ pDone = FALSE

\* SecFilingParser().parse(html), from the text blocks of the html on.
SecParse ==
    /\ pParser = "sec" /\ ~pDone
    /\ pSections' = SplitIntoSections(pInput)
    /\ pNodes' = SecNodes(SplitIntoSections(pInput), 1, pInput)
    /\ pDone' = TRUE
    /\ UNCHANGED <<pParser, pInput>>
    /\ UNCHANGED nonParseVars

\* TranscriptParser().parse(text).
TranscriptParse ==
    /\ pParser = "transcript" /\ ~pDone
    /\ pSections' = SplitBySpeaker(pInput)
    /\ pNodes' = TranscriptNodes(SplitBySpeaker(pInput), 1, FindQaBoundary(pInput))
    /\ pDone' = TRUE
    /\ UNCHANGED <<pParser, pInput>>
    /\ UNCHANGED nonParseVars

NextParse == SecParse \/ TranscriptParse

(***************************************************************************)
(*                   SecFilingParser._identify_section                     *)
(*                                                                         *)
(* A heading is the start of a text block after strip(): the word (in any  *)
(* case), then for "item" a number and the character after it, for "part"  *)
(* a roman numeral.  A key of SECTION_PATTERNS is <<word, number, letter>> *)
(* or <<word, numeral>>.                                                   *)
(***************************************************************************)

ItemLetters == {"", "a", "b", "c", "d", "A", "B", "C", "D"}

Numerals == {"i", "ii", "iii", "iv", "v", "I", "II", "III", "IV", "V"}

HeadingTexts ==
    {[word |-> w, num |-> n, after |-> l] :
        w \in {"item", "Item", "ITEM"}, n \in 1..17, l \in ItemLetters}
    \cup {[word |-> w, numeral |-> r] : w \in {"part", "Part", "PART"}, r \in Numerals}
    \cup {[word |-> "Note", num |-> 1, after |-> ""]}

\* str.lower() of the words, letters and numerals of a heading.
Lower(str) ==
    CASE str \in {"item", "Item", "ITEM"} -> "item"
      [] str \in {"part", "Part", "PART"} -> "part"
      [] str \in {"a", "A"} -> "a"
      [] str \in {"b", "B"} -> "b"
      [] str \in {"c", "C"} -> "c"
      [] str \in {"d", "D"} -> "d"
      [] str \in {"i", "I"} -> "i"
      [] str \in {"ii", "II"} -> "ii"
      [] str \in {"iii", "III"} -> "iii"
      [] str \in {"iv", "IV"} -> "iv"
      [] str \in {"v", "V"} -> "v"
      [] OTHER -> str

\* SECTION_PATTERNS
SectionPatterns ==
    [key \in {<<"item", n, "">> : n \in 1..16}
             \cup {<<"item", 1, "a">>, <<"item", 1, "b">>, <<"item", 1, "c">>,
                   <<"item", 7, "a">>, <<"item", 9, "a">>, <<"item", 9, "b">>}
             \cup {<<"part", "i">>, <<"part", "ii">>} |->
        CASE key = <<"item", 1, "a">> -> "Risk Factors"
          [] key = <<"item", 1, "b">> -> "Unresolved Staff Comments"
          [] key = <<"item", 1, "c">> -> "Cybersecurity"
          [] key = <<"item", 1, "">> -> "Business"
          [] key = <<"item", 2, "">> -> "Properties"
          [] key = <<"item", 3, "">> -> "Legal Proceedings"
          [] key = <<"item", 4, "">> -> "Mine Safety Disclosures"
          [] key = <<"item", 5, "">> -> "Market for Registrant's Common Equity"
          [] key = <<"item", 6, "">> -> "Reserved"
          [] key = <<"item", 7, "a">> -> "Quantitative and Qualitative Disclosures About Market Risk"
          [] key = <<"item", 7, "">> -> "Management's Discussion and Analysis (MD&A)"
          [] key = <<"item", 8, "">> -> "Financial Statements and Supplementary Data"
          [] key = <<"item", 9, "a">> -> "Controls and Procedures"
          [] key = <<"item", 9, "b">> -> "Other Information"
          [] key = <<"item", 9, "">> -> "Changes in and Disagreements with Accountants"
          [] key = <<"item", 10, "">> -> "Directors, Executive Officers and Corporate Governance"
          [] key = <<"item", 11, "">> -> "Executive Compensation"
          [] key = <<"item", 12, "">> -> "Security Ownership"
          [] key = <<"item", 13, "">> -> "Certain Relationships and Related Transactions"
          [] key = <<"item", 14, "">> -> "Principal Accountant Fees and Services"
          [] key = <<"item", 15, "">> -> "Exhibits and Financial Statement Schedules"
          [] key = <<"item", 16, "">> -> "Form 10-K Summary"
          [] key = <<"part", "i">> -> "Financial Information"
          [] key = <<"part", "ii">> -> "Other Information"]

\* _ITEM_PATTERN.match: ^\s*item\s+(\d+[a-c]?)\b, IGNORECASE.  <<group 1>>, or
\* <<>> when there is no match: a letter other than a-c after the digits
\* leaves no word boundary.
ItemMatch(h) ==
    IF Lower(h.word) = "item" /\ Lower(h.after) \in {"", "a", "b", "c"}
    THEN <<<<h.num, h.after>>>> ELSE <<>>

\* _PART_PATTERN.match: ^\s*part\s+(i{1,3}|iv)\b, IGNORECASE.
PartMatch(h) ==
    IF Lower(h.word) = "part" /\ Lower(h.numeral) \in {"i", "ii", "iii", "iv"}
    THEN <<h.numeral>> ELSE <<>>

\* SECTION_PATTERNS.get(key): <<>> for None.
PatternsGet(key) ==
    IF key \in DOMAIN SectionPatterns THEN <<SectionPatterns[key]>> ELSE <<>>

\* _identify_section(text): <<section_id, section_name>>, or <<>> for None.
IdentifyHeading(h) ==
    LET itemMatch == ItemMatch(h)
        itemKey == <<"item", itemMatch[1][1], Lower(itemMatch[1][2])>>
        partMatch == PartMatch(h)
        partKey == <<"part", Lower(partMatch[1])>>
    IN IF itemMatch # <<>> /\ PatternsGet(itemKey) # <<>>
       THEN <<itemKey, PatternsGet(itemKey)[1]>>
       ELSE IF partMatch # <<>> /\ PatternsGet(partKey) # <<>>
       THEN <<partKey, PatternsGet(partKey)[1]>>
       ELSE <<>>

InitIdentify ==
    /\ iHeading \in HeadingTexts
    /\ iResult = <<"none">>
    /\ iDone = FALSE

IdentifyIdle ==
    /\ iHeading = [word |-> "Note", num |-> 1, after |-> ""]
    /\ iResult = <<"none">>
    /\ iDone = FALSE

\* SecFilingParser()._identify_section(text)
IdentifyCall ==
    /\ ~iDone
    /\ iResult' = <<"returned", IdentifyHeading(iHeading)>>
    /\ iDone' = TRUE
    /\ UNCHANGED iHeading
    /\ UNCHANGED nonIdentVars

NextIdentify == IdentifyCall

\* The headings of the two families of the catalog: Item 1 to Item 16, Items
\* 1A, 1B, 1C, 7A, 9A, 9B, and Part I to Part IV, in any case.
CatalogItem(h) ==
    /\ Lower(h.word) = "item"
    /\ h.num \in 1..16
    /\ \/ h.after = ""
       \/ <<h.num, Lower(h.after)>>
             \in {<<1, "a">>, <<1, "b">>, <<1, "c">>, <<7, "a">>, <<9, "a">>, <<9, "b">>}

CatalogPart(h) == Lower(h.word) = "part" /\ Lower(h.numeral) \in {"i", "ii", "iii", "iv"}

\* C21: every heading Item 1 .. Item 16, Item 1A, 1B, 1C, 7A, 9A, 9B and
\* Part I .. Part IV is recognized as a section boundary, under the id of that
\* heading and with a canonical name (Item 1A: "Risk Factors", Item 7:
\* "Management's Discussion and Analysis (MD&A)").
C21_CatalogRecognized ==
    (iDone /\ (CatalogItem(iHeading) \/ CatalogPart(iHeading))) =>
        LET found == iResult[2] IN
        /\ found # <<>>
        /\ found[2] # ""
        /\ found[1][1] = Lower(iHeading.word)
        /\ CatalogItem(iHeading) =>
              /\ found[1][2] = iHeading.num
              /\ found[1][3] = Lower(iHeading.after)
        /\ CatalogPart(iHeading) => found[1][2] = Lower(iHeading.numeral)
        /\ found[1] = <<"item", 1, "a">> => found[2] = "Risk Factors"
        /\ found[1] = <<"item", 7, "">> =>
              found[2] = "Management's Discussion and Analysis (MD&A)"

(***************************************************************************)
(*                       Parsers: checked properties                       *)
(***************************************************************************)

MaxNodeLength == IF pParser = "sec" THEN SecMaxNodeLength ELSE TranscriptMaxNodeLength

MinNodeLength == IF pParser = "sec" THEN MinSectionLength ELSE MinSegmentLength

C12_NodesAtLeastMin ==
    pDone => \A n \in 1..Len(pNodes) : TextLen(pNodes[n].text) >= MinNodeLength

\* The heading a text block belongs to: the last recognized heading before
\* block i, 0 when there is none.
RECURSIVE EarlierHeading(_, _)
EarlierHeading(blocks, i) ==
    IF i = 1 THEN 0
    ELSE IF blocks[i - 1].match # <<>> THEN i - 1
    ELSE EarlierHeading(blocks, i - 1)

SectionIdOf(blocks, h) == IF h = 0 THEN "preamble" ELSE blocks[h].match[1]

TextBlockIndices == {i \in 1..Len(pInput) : pInput[i].match = <<>>}

\* C20: the sections of a filing hold, in document order, exactly the text
\* blocks that follow one recognized heading up to the next one, under the id
\* of that heading; the blocks before the first recognized heading form the
\* "preamble" section; every text block is in exactly one section; without
\* any recognized heading all text is one preamble section.
C20_BlocksFollowTheirHeading ==
    (pDone /\ pParser = "sec") =>
        /\ \A i \in TextBlockIndices :
              \E s \in 1..Len(pSections) :
                  /\ \E n \in 1..Len(pSections[s][3]) : pSections[s][3][n][1] = i
                  /\ \A t \in 1..Len(pSections) :
                        (\E n \in 1..Len(pSections[t][3]) : pSections[t][3][n][1] = i)
                            => t = s
        /\ \A s \in 1..Len(pSections) :
              LET parts == pSections[s][3] IN
              /\ parts # <<>>
              /\ \A n \in 1..Len(parts) :
                    /\ parts[n][1] \in TextBlockIndices
                    /\ parts[n][2] = 0 /\ parts[n][3] = pInput[parts[n][1]].raw
                    /\ n > 1 => parts[n][1] = parts[n - 1][1] + 1
                    /\ EarlierHeading(pInput, parts[n][1]) = EarlierHeading(pInput, parts[1][1])
                    /\ pSections[s][1] = SectionIdOf(pInput, EarlierHeading(pInput, parts[n][1]))
              /\ s > 1 => pSections[s - 1][3][1][1] < parts[1][1]
        /\ (\A i \in 1..Len(pInput) : pInput[i].match = <<>>) =>
              /\ Len(pSections) <= 1
              /\ \A s \in 1..Len(pSections) : pSections[s][1] = "preamble"

\* A filing with text before the first heading, text between two headings
\* and text after the last one has been split into three sections.
C20_Witness ==
    /\ pDone /\ pParser = "sec"
    /\ Len(pInput) = 4
    /\ pInput[1].match = <<>> /\ pInput[2].match # <<>>
    /\ pInput[3].match = <<>> /\ pInput[4].match = <<>>
    /\ Len(pSections) = 2
    /\ pSections[1][1] = "preamble"
    /\ pSections[2][1] = pInput[2].match[1]
    /\ Len(pSections[2][3]) = 2

\* The text of section or segment s as parse hands it to _split_long_text.
SectionText(s) ==
    IF pParser = "sec" THEN CleanText(pSections[s][3], pInput)
    ELSE Strip(pSections[s].text)

\* The texts parse splits, in order: those of at least the minimum length.
RECURSIVE SplitInputs(_)
SplitInputs(s) ==
    IF s > Len(pSections) THEN <<>>
    ELSE (IF TextLen(SectionText(s)) >= MinNodeLength
          THEN <<SectionText(s)>> ELSE <<>>) \o SplitInputs(s + 1)

\* The chunks of the emitted nodes, one sequence of chunks per split text: a
\* node without chunk_index, or with chunk_index 0, starts a new one.
RECURSIVE NodeChunks(_)
NodeChunks(n) ==
    IF n = 0 THEN <<>>
    ELSE LET before == NodeChunks(n - 1)
             node == pNodes[n]
         IN IF node.chunk = <<>> \/ node.chunk[1] = 0
            THEN Append(before, <<node.text>>)
            ELSE [before EXCEPT ![Len(before)] = Append(@, node.text)]

RECURSIVE ConcatAll(_)
ConcatAll(seqs) == IF seqs = <<>> THEN <<>> ELSE Head(seqs) \o ConcatAll(Tail(seqs))

\* Two pieces where the second goes on in the paragraph where the first ends.
Continues(p, q) == p[1] = q[1] /\ q[2] = p[2] + p[3]

\* The paragraphs a sequence of pieces makes up: successive slices of one
\* paragraph put together again.
RECURSIVE Coalesce(_)
Coalesce(pieces) ==
    IF Len(pieces) <= 1 THEN pieces
    ELSE LET rest == Coalesce(Tail(pieces)) IN
         IF Continues(pieces[1], rest[1])
         THEN <<<<pieces[1][1], pieces[1][2], pieces[1][3] + rest[1][3]>>>> \o Tail(rest)
         ELSE <<pieces[1]>> \o rest

\* C30: _split_long_text of either parser loses and reorders nothing: the
\* chunks of a text, in order, are its paragraphs in document order, every
\* character once (a paragraph longer than the maximum as successive slices);
\* inside a chunk the paragraphs keep their "\n\n", so the only characters
\* that go are the "\n\n" at chunk boundaries; a text of at most
\* MAX_NODE_LENGTH characters comes back whole as the only chunk.
C30_SplitKeepsText ==
    pDone =>
        LET inputs == SplitInputs(1)
            chunks == NodeChunks(Len(pNodes))
        IN /\ Len(chunks) = Len(inputs)
           /\ \A k \in 1..Len(inputs) :
                 /\ Coalesce(ConcatAll(chunks[k])) = inputs[k]
                 /\ \A c \in 1..Len(chunks[k]) :
                       \A n \in 1..(Len(chunks[k][c]) - 1) :
                           ~Continues(chunks[k][c][n], chunks[k][c][n + 1])
                 /\ TextLen(inputs[k]) <= MaxNodeLength => chunks[k] = <<inputs[k]>>

\* C30 witness: a text of three paragraphs was split: the first two fill one
\* chunk, the third, longer than the maximum, came out as three slices.
C30_Witness ==
    /\ pDone
    /\ \E k \in 1..Len(SplitInputs(1)) :
          LET chunks == NodeChunks(Len(pNodes))[k] IN
          /\ Len(SplitInputs(1)[k]) = 3
          /\ Len(chunks) = 4
          /\ Len(chunks[1]) = 2
          /\ chunks[2][1][2] = 0
          /\ chunks[3][1][2] = MaxNodeLength
          /\ chunks[4][1][2] = 2 * MaxNodeLength

\* The segments parse keeps, in order: those whose stripped text has at
\* least MIN_SEGMENT_LENGTH characters.
RECURSIVE KeptSegments(_)
KeptSegments(s) ==
    IF s > Len(pSections) THEN <<>>
    ELSE (IF TextLen(Strip(pSections[s].text)) >= MinSegmentLength
          THEN <<pSections[s]>> ELSE <<>>) \o KeptSegments(s + 1)

\* The number of the kept segment node n is a chunk of: the number of nodes
\* up to n that start a segment.
RECURSIVE SegmentOfNode(_)
SegmentOfNode(n) ==
    IF n = 0 THEN 0
    ELSE SegmentOfNode(n - 1)
            + (IF pNodes[n].chunk = <<>> \/ pNodes[n].chunk[1] = 0 THEN 1 ELSE 0)

\* The positions in the transcript at which a Q&A marker phrase occurs.
MarkerPositions == {ItemStart(pInput, i) : i \in {j \in 1..Len(pInput) : pInput[j].marker}}

\* C22: a node of a transcript is tagged "q_and_a" iff a Q&A marker occurs at
\* or before the start of its segment, that is iff there is a marker and the
\* segment starts at or after the earliest one; every other node is tagged
\* "prepared_remarks"; in output order no prepared_remarks node follows a
\* q_and_a node, and the chunks of one segment have the same tag.
C22_QaFromEarliestMarker ==
    (pDone /\ pParser = "transcript") =>
        LET kept == KeptSegments(1) IN
        /\ SegmentOfNode(Len(pNodes)) = Len(kept)
        /\ \A n \in 1..Len(pNodes) :
              LET segment == kept[SegmentOfNode(n)] IN
              /\ pNodes[n].meta[3] \in {"q_and_a", "prepared_remarks"}
              /\ pNodes[n].meta[3] = "q_and_a"
                    <=> \E m \in MarkerPositions : segment.start_pos >= m
              /\ \A k \in 1..Len(pNodes) :
                    /\ (k < n /\ pNodes[k].meta[3] = "q_and_a")
                          => pNodes[n].meta[3] = "q_and_a"
                    /\ SegmentOfNode(k) = SegmentOfNode(n)
                          => pNodes[k].meta[3] = pNodes[n].meta[3]

\* C22 witness: the segment of the first speaker starts before the marker
\* phrase, which is in its own text, and is tagged prepared_remarks; the
\* segment of the next speaker, long enough to be split, has all its chunks
\* tagged q_and_a.
C22_Witness ==
    /\ pDone /\ pParser = "transcript"
    /\ Len(pNodes) >= 3
    /\ pNodes[1].meta[3] = "prepared_remarks"
    /\ pInput[pNodes[1].text[1][1]].marker
    /\ pNodes[2].meta[3] = "q_and_a" /\ pNodes[2].chunk # <<>>
    /\ pNodes[3].meta[3] = "q_and_a" /\ pNodes[3].chunk # <<>>
    /\ \E m \in MarkerPositions : KeptSegments(1)[1].start_pos < m


(***************************************************************************)
(*                     tools/_base.py: cached_request                      *)
(***************************************************************************)

\* The coroutines calling cached_request on the one event loop.
Requesters == {1, 2}

\* The namespace of the calls; they share the one key of Keys.
RequestNamespaces == {<<"a">>}

\* What `await fetch_fn()` does: it returns bytes or raises.
FetchRaised == <<"raised">>

InitRequest ==
    /\ crPc = [r \in Requesters |-> "idle"]
    /\ crArgs = [r \in Requesters |-> <<>>]
    /\ crValid = [r \in Requesters |-> None]
    /\ crFetched = [r \in Requesters |-> FALSE]
    /\ crStored = [r \in Requesters |-> <<>>]
    /\ crRet = [r \in Requesters |-> <<>>]

RequestIdle == InitRequest

\* The unexpired bytes of the latest put on an entry, None when there is no
\* such put.
ValidBytes(e) ==
    IF lastPut[e] # <<>> /\ WithinTTL(lastPut[e][2], ctime)
    THEN <<lastPut[e][1]>> ELSE None

\* `if cached is not None` (CachedHitTruthy: a mutant testing `if cached`)
CachedHitTruthy(cached) == cached # None /\ cached[1] # <<>>
CachedHit(cached) == cached # None

\* cached_request up to its first suspension: cache.get, then either the
\* return of the cached bytes or the call of fetch_fn.
CachedRequest(r, ns, key, ttl) ==
    LET e == EntryPath(ns, key)
        raises == CallRaises(dataF[e], metaF[e])
        cached == GetRet(dataF[e], metaF[e], ctime) IN
    /\ crPc[r] = "idle"
    /\ IF GetRemovesPair(dataF[e], metaF[e], ctime)
       THEN /\ dataF' = [dataF EXCEPT ![e] = NoFile]
            /\ metaF' = [metaF EXCEPT ![e] = NoFile]
       ELSE UNCHANGED <<dataF, metaF>>
    /\ lastDelete' = <<>>
    /\ UNCHANGED <<ctime, dirs, lastPut>>
    /\ crArgs' = [crArgs EXCEPT ![r] = <<ns, key, ttl>>]
    /\ crValid' = [crValid EXCEPT ![r] = ValidBytes(e)]
    /\ crStored' = [crStored EXCEPT ![r] = <<>>]
    /\ IF raises
       THEN /\ crRet' = [crRet EXCEPT ![r] = FetchRaised]
            /\ crFetched' = [crFetched EXCEPT ![r] = FALSE]
            /\ UNCHANGED crPc
       ELSE IF CachedHit(cached)
       THEN /\ crRet' = [crRet EXCEPT ![r] = <<"returned", cached[1]>>]
            /\ crFetched' = [crFetched EXCEPT ![r] = FALSE]
            /\ UNCHANGED crPc
       ELSE /\ crRet' = [crRet EXCEPT ![r] = <<>>]
            /\ crFetched' = [crFetched EXCEPT ![r] = TRUE]
            /\ crPc' = [crPc EXCEPT ![r] = "fetching"]
    /\ UNCHANGED nonRequestVars

\* fetch_fn returns: cache.put(namespace, key, data, ttl_seconds=ttl), then
\* `return data`.
FetchReturns(r, data) ==
    LET e == EntryPath(crArgs[r][1], crArgs[r][2])
        ttl == crArgs[r][3]
        meta == PutMeta(metaF[e], ctime, ttl) IN
    /\ crPc[r] = "fetching"
    /\ dirs' = dirs \cup Mkdir(crArgs[r][1])
    /\ dataF' = [dataF EXCEPT ![e] = <<data>>]
    /\ metaF' = [metaF EXCEPT ![e] = <<meta>>]
    /\ lastPut' = [lastPut EXCEPT ![e] =
                      <<data, [created_at |-> ctime, ttl_seconds |-> ttl],
                        dataF[e] # NoFile>>]
    /\ lastDelete' = <<>>
    /\ UNCHANGED ctime
    /\ crStored' = [crStored EXCEPT ![r] = <<data, ttl>>]
    /\ crRet' = [crRet EXCEPT ![r] = <<"returned", data>>]
    /\ crPc' = [crPc EXCEPT ![r] = "idle"]
    /\ UNCHANGED <<crArgs, crValid, crFetched>>
    /\ UNCHANGED nonRequestVars

\* fetch_fn raises: the exception leaves cached_request at the await.
FetchRaises(r) ==
    /\ crPc[r] = "fetching"
    /\ crRet' = [crRet EXCEPT ![r] = FetchRaised]
    /\ crPc' = [crPc EXCEPT ![r] = "idle"]
    /\ UNCHANGED <<crArgs, crValid, crFetched, crStored>>
    /\ UNCHANGED cacheVars
    /\ UNCHANGED nonRequestVars

NextRequest ==
    \/ CTick
    \/ \E r \in Requesters, ns \in RequestNamespaces, key \in Keys,
          ttl \in TTLs : CachedRequest(r, ns, key, ttl)
    \/ \E r \in Requesters, data \in Bytes : FetchReturns(r, data)
    \/ \E r \in Requesters : FetchRaises(r)

\* C27: cached_request invokes fetch_fn only when the cache holds no valid
\* entry for the key; a call made while the latest stored bytes are unexpired
\* returns those bytes without invoking fetch_fn and without storing; a call
\* whose fetch_fn returned stored exactly the fetched bytes under the given
\* ttl and returned them; a call whose fetch_fn raised propagated the error
\* and stored nothing.
C27_FetchOnlyOnMiss ==
    \A r \in Requesters :
        crArgs[r] # <<>> =>
            /\ crFetched[r] => crValid[r] = None
            /\ crValid[r] # None =>
                  /\ ~crFetched[r]
                  /\ crPc[r] = "idle"
                  /\ crRet[r] = <<"returned", crValid[r][1]>>
                  /\ crStored[r] = <<>>
            /\ (crFetched[r] /\ crPc[r] = "idle") =>
                  \/ crRet[r] = FetchRaised /\ crStored[r] = <<>>
                  \/ /\ crRet[r] # FetchRaised
                     /\ crRet[r][1] = "returned"
                     /\ crStored[r] = <<crRet[r][2], crArgs[r][3]>>
            /\ (crFetched[r] /\ crPc[r] = "fetching") =>
                  crStored[r] = <<>> /\ crRet[r] = <<>>

\* C27 witness: one caller was served the empty byte string, stored with a
\* ttl of one second exactly one second earlier, without a fetch; the other
\* caller's fetch_fn had raised before those bytes were stored.
C27_Witness ==
    \E r, q \in Requesters :
        /\ r # q
        /\ crPc[r] = "idle" /\ crArgs[r] # <<>>
        /\ crValid[r] = <<<<>>>>
        /\ ~crFetched[r]
        /\ crRet[r] = <<"returned", <<>>>>
        /\ LET e == EntryPath(crArgs[r][1], crArgs[r][2]) IN
              /\ lastPut[e] # <<>>
              /\ lastPut[e][2].ttl_seconds = <<1>>
              /\ lastPut[e][2].created_at = ctime - 1
        /\ crPc[q] = "idle" /\ crArgs[q] # <<>>
        /\ crFetched[q] /\ crRet[q] = FetchRaised /\ crStored[q] = <<>>


(***************************************************************************)
(*            tools/_base.py: sec_get, sec_efts_get, fred_get              *)
(***************************************************************************)

Helpers == {"sec_get", "sec_efts_get", "fred_get"}

\* get_limiter("sec_edgar") / get_limiter("fred")
HelperLimiter(h) == IF h = "fred_get" THEN "fred" ELSE "sec_edgar"

HelperLimiters == {HelperLimiter(h) : h \in Helpers}

\* cfg.sec_user_agent / cfg.fred_api_key
HelperCredential(h) == IF h = "fred_get" THEN "fred_api_key" ELSE "sec_user_agent"

\* The values of a credential: None, the empty string, a non-empty string.
CredentialValues == {<<>>, <<"">>, <<"set">>}

\* `not cfg.sec_user_agent` / `not cfg.fred_api_key`
NotConfigured(cred) == cred = <<>> \/ cred = <<"">>

\* What the HTTP request ends in: response.json() or raise_for_status raising.
Responses == {"returned", "failed"}

\* The positions in which no helper call is running.
HelperAtRest == {"idle", "raised"} \cup Responses

InitHelper ==
    /\ hCfg \in [{"sec_user_agent", "fred_api_key"} -> CredentialValues]
    /\ hPc = "idle"
    /\ hHelper = ""
    /\ hCred = <<>>
    /\ hTokens = [n \in HelperLimiters |-> NoLimiter]
    /\ hSnap = hTokens
    /\ hSent = FALSE

HelperIdle ==
    /\ hCfg = [f \in {"sec_user_agent", "fred_api_key"} |-> <<>>]
    /\ hPc = "idle"
    /\ hHelper = ""
    /\ hCred = <<>>
    /\ hTokens = [n \in HelperLimiters |-> NoLimiter]
    /\ hSnap = hTokens
    /\ hSent = FALSE

\* configure(sec_user_agent=...) / configure(fred_api_key=...) between calls.
Configure(field, value) ==
    /\ hPc \in HelperAtRest
    /\ hCfg[field] # value
    /\ hCfg' = [hCfg EXCEPT ![field] = value]
    /\ UNCHANGED <<hPc, hHelper, hCred, hTokens, hSnap, hSent>>
    /\ UNCHANGED nonHelperVars

\* get_limiter(name): the limiter of the name, created with _tokens = rate.
HelperGetLimiter(name) ==
    IF hTokens[name] = NoLimiter
    THEN [hTokens EXCEPT ![name] = <<LimitsFor(name)[1]>>]
    ELSE hTokens

\* A helper that enters the limiter before it looks at the configuration.
HelperCallLimiterFirst(h) ==
    LET cred == hCfg[HelperCredential(h)]
        name == HelperLimiter(h)
        got == HelperGetLimiter(name) IN
    /\ hPc \in HelperAtRest
    /\ got[name][1] >= 1
    /\ hHelper' = h
    /\ hCred' = cred
    /\ hSnap' = hTokens
    /\ hSent' = FALSE
    /\ hTokens' = [got EXCEPT ![name] = <<got[name][1] - 1>>]
    /\ hPc' = IF NotConfigured(cred) THEN "raised" ELSE "request"
    /\ UNCHANGED hCfg
    /\ UNCHANGED nonHelperVars

\* sec_get / sec_efts_get / fred_get up to `async with limiter`: the
\* configuration is read and checked, then the client and the limiter are
\* looked up.
HelperCall(h) ==
    LET cred == hCfg[HelperCredential(h)] IN
    /\ hPc \in HelperAtRest
    /\ hHelper' = h
    /\ hCred' = cred
    /\ hSnap' = hTokens
    /\ hSent' = FALSE
    /\ IF NotConfigured(cred)
       THEN /\ hPc' = "raised"
            /\ UNCHANGED hTokens
       ELSE /\ hPc' = "acquire"
            /\ hTokens' = HelperGetLimiter(HelperLimiter(h))
    /\ UNCHANGED hCfg
    /\ UNCHANGED nonHelperVars

\* `async with limiter`: acquire refills by the time that has passed (none,
\* one token's worth, a whole period) and takes a token, or sleeps and tries
\* again.
HelperAcquire(elapsed) ==
    LET name == HelperLimiter(hHelper)
        refilled == Min(LimitsFor(name)[1], hTokens[name][1] + elapsed) IN
    /\ hPc = "acquire"
    /\ IF refilled >= 1
       THEN /\ hTokens' = [hTokens EXCEPT ![name] = <<refilled - 1>>]
            /\ hPc' = "request"
       ELSE /\ hTokens' = [hTokens EXCEPT ![name] = <<refilled>>]
            /\ UNCHANGED hPc
    /\ UNCHANGED <<hCfg, hHelper, hCred, hSnap, hSent>>
    /\ UNCHANGED nonHelperVars

\* client.get(...), response.raise_for_status(), return response.json()
HelperRequest(response) ==
    /\ hPc = "request"
    /\ hSent' = TRUE
    /\ hPc' = response
    /\ UNCHANGED <<hCfg, hHelper, hCred, hTokens, hSnap>>
    /\ UNCHANGED nonHelperVars

NextHelper ==
    \/ \E f \in {"sec_user_agent", "fred_api_key"}, v \in CredentialValues :
          Configure(f, v)
    \/ \E h \in Helpers : HelperCall(h)
    \/ \E el \in {0, 1} : HelperAcquire(el)
    \/ \E name \in HelperLimiters : HelperAcquire(LimitsFor(name)[1])
    \/ \E resp \in Responses : HelperRequest(resp)

\* C23: a call of sec_get, sec_efts_get or fred_get raises ValueError exactly
\* when the credential it needs is None or empty, and a call that raised it
\* has issued no HTTP request and left every limiter, its token count
\* included, as it was when the call began.
C23_CredentialCheckedFirst ==
    /\ hPc # "idle" => (hPc = "raised" <=> hCred \in {<<>>, <<"">>})
    /\ hPc = "raised" => hTokens = hSnap /\ ~hSent

\* C23 witness: fred_get raised for a missing key while the "fred" limiter
\* had no token left, and sec_get or sec_efts_get raised while "sec_edgar"
\* had some of its tokens taken.
C23_Witness ==
    /\ hPc = "raised"
    /\ \/ /\ hHelper = "fred_get"
          /\ hTokens["fred"] = <<0>>
          /\ hTokens["sec_edgar"] # NoLimiter
       \/ /\ hHelper = "sec_efts_get"
          /\ hTokens["sec_edgar"] = <<8>>
          /\ hTokens["fred"] = NoLimiter


(***************************************************************************)
(*        core.py: Hermes.register_agent, list_agents, run                 *)
(***************************************************************************)

\* cls.name of the classes _register_builtin_agents registers, in its order.
BuiltinAgents ==
    <<"sec_filings", "macro", "market_data", "news", "modeling", "report",
      "orchestrator">>

\* Names of tools _register_builtin_tools registers, in its order.
BuiltinTools == <<"get_company_facts", "get_fred_series">>

\* The names register_agent is called with: two built-in names and a new one.
UserAgentNames == {"sec_filings", "orchestrator", "custom"}

AgentNames == {BuiltinAgents[i] : i \in DOMAIN BuiltinAgents} \cup UserAgentNames

\* The classes: the one shipped under a name and two classes of the user.
BuiltinClass == "builtin"
UserClasses == {"UserAgentA", "UserAgentB"}

NoAgent == <<>>

\* Hermes(): an empty registry, no extra tools or agents.
InitHermes ==
    /\ hmAgents = [n \in AgentNames |-> NoAgent]
    /\ hmTools = {}
    /\ hmInitialized = FALSE
    /\ hmUser = [n \in AgentNames |-> NoAgent]
    /\ hmLast = <<"none">>

HermesIdle == InitHermes

\* Registry.register_agent raises KeyError.
RegisterAgentRaises(agents, name, override) ==
    agents[name] # NoAgent /\ ~override

\* Registry.register_agent: the registry after a call that does not raise.
RegistryRegisterAgent(agents, name, cls) == [agents EXCEPT ![name] = <<cls>>]

\* _register_builtin_tools from the i-th tool on: <<tools, raised>>.
RECURSIVE RegisterBuiltinTools(_, _)
RegisterBuiltinTools(tools, i) ==
    IF i > Len(BuiltinTools) THEN <<tools, FALSE>>
    ELSE IF BuiltinTools[i] \in tools THEN <<tools, TRUE>>
    ELSE RegisterBuiltinTools(tools \cup {BuiltinTools[i]}, i + 1)

\* _register_builtin_agents from the i-th class on: <<agents, raised>>.
RECURSIVE RegisterBuiltinAgents(_, _)
RegisterBuiltinAgents(agents, i) ==
    IF i > Len(BuiltinAgents) THEN <<agents, FALSE>>
    ELSE IF RegisterAgentRaises(agents, BuiltinAgents[i], FALSE)
    THEN <<agents, TRUE>>
    ELSE RegisterBuiltinAgents(
             RegistryRegisterAgent(agents, BuiltinAgents[i], BuiltinClass), i + 1)

\* _ensure_initialized: the tools, the agents and _initialized after it, and
\* whether it raised KeyError.
EnsureInitialized ==
    IF hmInitialized
    THEN [tools |-> hmTools, agents |-> hmAgents, initialized |-> TRUE,
          raised |-> FALSE]
    ELSE LET t == RegisterBuiltinTools(hmTools, 1) IN
         IF t[2]
         THEN [tools |-> t[1], agents |-> hmAgents, initialized |-> FALSE,
               raised |-> TRUE]
         ELSE LET a == RegisterBuiltinAgents(hmAgents, 1) IN
              [tools |-> t[1], agents |-> a[1], initialized |-> ~a[2],
               raised |-> a[2]]

\* Hermes.register_agent(name, agent_cls, override=override)
RegisterAgent(name, cls, override) ==
    /\ IF RegisterAgentRaises(hmAgents, name, override)
       THEN /\ hmLast' = <<"register_agent", "KeyError">>
            /\ UNCHANGED <<hmAgents, hmUser>>
       ELSE /\ hmLast' = <<"register_agent", "returned">>
            /\ hmAgents' = RegistryRegisterAgent(hmAgents, name, cls)
            /\ hmUser' = IF override THEN [hmUser EXCEPT ![name] = <<cls>>]
                         ELSE hmUser
    /\ UNCHANGED <<hmTools, hmInitialized>>
    /\ UNCHANGED nonHermesVars

\* Hermes.list_agents()
ListAgents ==
    LET r == EnsureInitialized IN
    /\ hmTools' = r.tools
    /\ hmAgents' = r.agents
    /\ hmInitialized' = r.initialized
    /\ hmLast' = IF r.raised THEN <<"list_agents", "KeyError">>
                 ELSE <<"list_agents", "returned">>
    /\ UNCHANGED hmUser
    /\ UNCHANGED nonHermesVars

\* Hermes.run(query): _ensure_initialized, then the orchestrator's workflow.
Run ==
    LET r == EnsureInitialized IN
    /\ hmTools' = r.tools
    /\ hmAgents' = r.agents
    /\ hmInitialized' = r.initialized
    /\ hmLast' = IF r.raised THEN <<"run", "KeyError">>
                 ELSE <<"run", "returned">>
    /\ UNCHANGED hmUser
    /\ UNCHANGED nonHermesVars

NextHermes ==
    \/ \E name \in UserAgentNames, cls \in UserClasses, override \in BOOLEAN :
          RegisterAgent(name, cls, override)
    \/ ListAgents
    \/ Run

\* C24: once register_agent(name, cls, override=True) has been called, in
\* whatever order with list_agents and run and also before the one-time
\* registration of the built-in agents, a call of list_agents succeeds and
\* name resolves to cls, the class of the latest such registration.
C24_OverrideResolves ==
    \A name \in AgentNames :
        hmUser[name] # NoAgent =>
            /\ hmAgents[name] = hmUser[name]
            /\ hmLast[1] = "list_agents" => hmLast[2] = "returned"


(***************************************************************************)
(*                            Specifications                               *)
(***************************************************************************)

InitSpecLimiter == InitLimiter /\ CacheIdle /\ RunIdle /\ DurIdle /\ RetryIdle /\ ParseIdle /\ RaceIdle /\ RegistryIdle /\ IdentifyIdle /\ RequestIdle /\ HelperIdle /\ HermesIdle
SpecLimiter == InitSpecLimiter /\ [][NextLimiter]_vars

InitSpecCache == InitCache /\ LimiterIdle /\ RunIdle /\ DurIdle /\ RetryIdle /\ ParseIdle /\ RaceIdle /\ RegistryIdle /\ IdentifyIdle /\ RequestIdle /\ HelperIdle /\ HermesIdle
SpecCache == InitSpecCache /\ [][NextCache]_vars

InitSpecRun == InitRun /\ LimiterIdle /\ CacheIdle /\ DurIdle /\ RetryIdle /\ ParseIdle /\ RaceIdle /\ RegistryIdle /\ IdentifyIdle /\ RequestIdle /\ HelperIdle /\ HermesIdle
SpecRun == InitSpecRun /\ [][NextRun]_vars

InitSpecDuration == InitDur /\ LimiterIdle /\ CacheIdle /\ RunIdle /\ RetryIdle /\ ParseIdle /\ RaceIdle /\ RegistryIdle /\ IdentifyIdle /\ RequestIdle /\ HelperIdle /\ HermesIdle
SpecDuration == InitSpecDuration /\ [][NextDur]_vars

InitSpecRetry == InitRetry /\ LimiterIdle /\ CacheIdle /\ RunIdle /\ DurIdle /\ ParseIdle /\ RaceIdle /\ RegistryIdle /\ IdentifyIdle /\ RequestIdle /\ HelperIdle /\ HermesIdle
SpecRetry == InitSpecRetry /\ [][NextRetry]_vars

InitSpecParse == InitParse /\ LimiterIdle /\ CacheIdle /\ RunIdle /\ DurIdle /\ RetryIdle /\ RaceIdle /\ RegistryIdle /\ IdentifyIdle /\ RequestIdle /\ HelperIdle /\ HermesIdle
SpecParse == InitSpecParse /\ [][NextParse]_vars

SpecCacheCorrupt == InitSpecCache /\ [][NextCacheCorrupt]_vars

SpecCacheKeys == InitSpecCache /\ [][NextCacheKeys]_vars

InitSpecRace ==
    InitRace /\ CacheIdle /\ LimiterIdle /\ RunIdle /\ DurIdle /\ RetryIdle /\ ParseIdle /\ RegistryIdle /\ IdentifyIdle /\ RequestIdle /\ HelperIdle /\ HermesIdle
SpecRace == InitSpecRace /\ [][NextRace]_vars

InitSpecRegistry ==
    InitRegistry /\ LimiterIdle /\ CacheIdle /\ RunIdle /\ DurIdle /\ RetryIdle
        /\ ParseIdle /\ RaceIdle /\ IdentifyIdle /\ RequestIdle /\ HelperIdle /\ HermesIdle
SpecRegistry == InitSpecRegistry /\ [][NextRegistry]_vars

SpecLimiterCancel == InitSpecLimiter /\ [][NextLimiterCancel]_vars

SpecLimiterLive == InitSpecLimiter /\ [][NextLimiterLive]_vars /\ FairLimiter

SpecLimiterOrder == InitSpecLimiter /\ [][NextLimiterOrder]_vars

InitSpecLimiterSolo ==
    InitLimiterSolo /\ CacheIdle /\ RunIdle /\ DurIdle /\ RetryIdle /\ ParseIdle
        /\ RaceIdle /\ RegistryIdle /\ IdentifyIdle /\ RequestIdle /\ HelperIdle /\ HermesIdle
SpecLimiterSolo == InitSpecLimiterSolo /\ [][NextLimiterSolo]_vars /\ FairSolo

InitSpecIdentify ==
    InitIdentify /\ LimiterIdle /\ CacheIdle /\ RunIdle /\ DurIdle /\ RetryIdle
        /\ ParseIdle /\ RaceIdle /\ RegistryIdle /\ RequestIdle /\ HelperIdle /\ HermesIdle
SpecIdentify == InitSpecIdentify /\ [][NextIdentify]_vars

InitSpecRequest ==
    InitRequest /\ InitCache /\ LimiterIdle /\ RunIdle /\ DurIdle /\ RetryIdle
        /\ ParseIdle /\ RaceIdle /\ RegistryIdle /\ IdentifyIdle /\ HelperIdle /\ HermesIdle
SpecRequest == InitSpecRequest /\ [][NextRequest]_vars

InitSpecHelper ==
    InitHelper /\ LimiterIdle /\ CacheIdle /\ RunIdle /\ DurIdle /\ RetryIdle
        /\ ParseIdle /\ RaceIdle /\ RegistryIdle /\ IdentifyIdle /\ RequestIdle /\ HermesIdle
SpecHelper == InitSpecHelper /\ [][NextHelper]_vars

InitSpecHermes ==
    InitHermes /\ LimiterIdle /\ CacheIdle /\ RunIdle /\ DurIdle /\ RetryIdle
        /\ ParseIdle /\ RaceIdle /\ RegistryIdle /\ IdentifyIdle /\ RequestIdle
        /\ HelperIdle
SpecHermes == InitSpecHermes /\ [][NextHermes]_vars

====
